---- MODULE Spec2Model ----
(***************************************************************************)
(* A model of the AegisNet data-plane core.                                *)
(*                                                                         *)
(*  - the interception lifecycle manager: EbpfLoader                       *)
(*    (crates/aegisnet-agent/src/ebpf_loader.rs) and the tokio RwLock the  *)
(*    agent wraps it in (crates/aegisnet-agent/src/lib.rs, config.rs);     *)
(*  - the policy execution engine: WasmPolicyEngine                        *)
(*    (crates/aegisnet-ebpf/src/policy.rs);                                *)
(*  - the secure channel engine: NoiseEncryptor                            *)
(*    (crates/aegisnet-ebpf/src/encryption.rs);                            *)
(*  - the shared state store: MapManager                                   *)
(*    (crates/aegisnet-ebpf/src/maps.rs);                                  *)
(*  - the policy model: PortRange, NetworkPolicy and PolicySet             *)
(*    (crates/aegisnet-common/src/models/policy.rs).                       *)
(*                                                                         *)
(* An Option<T> is modelled as a set with at most one element: {} is None  *)
(* and {x} is Some(x).                                                     *)
(***************************************************************************)
EXTENDS Integers, Sequences, FiniteSets, TLC

(***************************************************************************)
(* Bounds of the model.                                                    *)
(***************************************************************************)
\* number of tasks that call the loader through its lock
NumTasks == 2
\* longest interface list a configuration holds
MaxIfaces == 2
\* number of threads that call the policy engine
NumThreads == 2
\* number of messages a session encrypts
MaxMessages == 2
\* longest plaintext a caller passes
MaxPlainLen == 1
\* number of callers of the connection table
NumCallers == 2
\* number of constraints (identities, addresses, port ranges) a policy is given
MaxConstraints == 1
\* number of policies in a PolicySet
MaxPolicies == 2
\* number of rules in a ZeroTrustPolicy
MaxRules == 2
\* number of reload tasks the configuration watcher has spawned
NumReloads == 2

VARIABLES
    \* ---- EbpfLoader and the agent around it
    config,           \* ConfigManager.config: bpf_path and interfaces
    hook_manager,     \* EbpfLoader.hook_manager : Option<HookManager>
    map_manager,      \* EbpfLoader.map_manager : Option<MapManager>
    loaded_programs,  \* EbpfLoader.loaded_programs : HashMap<String, ProgramInfo>
    bpf_path,         \* EbpfLoader.bpf_path
    loader_lock,      \* the RwLock around the loader: the task holding write()
    config_lock,      \* the RwLock around the ConfigManager: writer and readers
    lpc,              \* each task's position in its loader call
    lcall,            \* each task's call frame (locals and what the call did so far)
    \* ---- WasmPolicyEngine
    policy_cache,     \* WasmPolicyEngine.policy_cache : HashMap<String, Module>
    vm,               \* WasmPolicyEngine.vm: the modules registered in the engine's own Vm
    ppc,              \* each thread's position in its engine call
    pcall,            \* each thread's call frame
    last_write,       \* the load_policy or unload_policy call that returned last
    loaded_ids,       \* history: the ids loaded and not unloaded since
    \* ---- NoiseEncryptor: a sending session "a" and a receiving session "b"
    session,          \* NoiseEncryptor.state of each session, behind its Mutex
    pattern,          \* NoiseEncryptor.pattern of each session
    wire,             \* the ciphertexts session "a" produced, in order
    sent,             \* history: the plaintexts session "a" encrypted, in order
    accepted,         \* history: per session, the positions in wire of what decrypt accepted
    scall,            \* the call on a session that returned last
    \* ---- MapManager
    connection_map,   \* MapManager.connection_map : HashMap<ConnectionId, ConnectionInfo>
    policy_map,       \* MapManager.policy_map : HashMap<String, u32>
    last_upsert,      \* history: per key, the value of the last update that took effect
    mpc,              \* each caller's position in its call on the table
    mcall,            \* each caller's call frame
    \* ---- PortRange
    range,            \* the PortRange the last constructor returned, if it returned one
    rcall,            \* the call on PortRange that returned last
    \* ---- NetworkPolicy
    policy,           \* a NetworkPolicy in the hands of its owner
    conn,             \* the connection the owner asks about: the arguments of matches
    ncall,            \* the call on the policy that returned last
    before_disable,   \* history: the policy as it was when it was disabled
    \* ---- PolicySet
    policies,         \* PolicySet.policies
    arrival,          \* history: the policies of the set in the order they were added
    setcall,          \* the call on the PolicySet that returned last
    \* ---- ConnectionId
    v4calls,          \* the last two calls of create_ipv4_connection_id, newest first
    v6call,           \* the last call of create_ipv6_connection_id
    \* ---- PolicyGenerator
    generator,        \* PolicyGenerator.version
    gcalls,           \* the last two calls on the generator, newest first
    \* ---- SpiffeId
    snew,             \* the last call of SpiffeId::new: arguments and result
    suri,             \* what uri() returned on the id of that call, if called
    sparse,           \* the last call of SpiffeId::from_uri since: argument and result
    \* ---- the tasks of the agent and its two RwLocks
    rwlock,           \* per lock: the writer, the readers and the queue of waiters
    apc,              \* per task: its place in its program, and whether it waits
    \* ---- the configuration file and its watcher
    config_file,      \* what the configuration file holds now, if it parses
    trigger           \* per task: the file contents that made the watcher spawn it

loaderVars == <<config, hook_manager, map_manager, loaded_programs, bpf_path,
                loader_lock, config_lock, lpc, lcall>>
policyVars == <<policy_cache, vm, ppc, pcall, last_write, loaded_ids>>
sessionVars == <<session, pattern, wire, sent, accepted, scall>>
storeVars == <<connection_map, policy_map, last_upsert, mpc, mcall>>
portRangeVars == <<range, rcall>>
networkPolicyVars == <<policy, conn, ncall, before_disable>>
\* the variables of the policy model
policySetVars == <<policies, arrival, setcall>>
modelVars == <<portRangeVars, networkPolicyVars, policySetVars>>
connIdVars == <<v4calls, v6call>>
\* the variables of the value types
generatorVars == <<generator, gcalls>>
spiffeVars == <<snew, suri, sparse>>
valueVars == <<connIdVars, generatorVars, spiffeVars>>
agentVars == <<rwlock, apc>>
watcherVars == <<config_file, trigger>>
notWatcherLoaderVars ==
    <<policyVars, sessionVars, storeVars, modelVars, valueVars, agentVars>>
vars == <<config, hook_manager, map_manager, loaded_programs, bpf_path,
          loader_lock, config_lock, lpc, lcall,
          policy_cache, vm, ppc, pcall, last_write, loaded_ids,
          session, pattern, wire, sent, accepted, scall,
          connection_map, policy_map, last_upsert, mpc, mcall,
          range, rcall, policy, conn, ncall, before_disable,
          policies, arrival, setcall, v4calls, v6call, generator, gcalls,
          snew, suri, sparse, rwlock, apc, config_file, trigger>>
\* what a call on one component leaves alone: the other components
notLoaderVars == <<watcherVars, policyVars, sessionVars, storeVars, modelVars, valueVars, agentVars>>
notPolicyVars == <<watcherVars, loaderVars, sessionVars, storeVars, modelVars, valueVars, agentVars>>
notSessionVars == <<watcherVars, loaderVars, policyVars, storeVars, modelVars, valueVars, agentVars>>
notStoreVars == <<watcherVars, loaderVars, policyVars, sessionVars, modelVars, valueVars, agentVars>>
notModelVars == <<watcherVars, loaderVars, policyVars, sessionVars, storeVars, valueVars, agentVars>>
notValueVars == <<watcherVars, loaderVars, policyVars, sessionVars, storeVars, modelVars, agentVars>>
notAgentVars == <<watcherVars, loaderVars, policyVars, sessionVars, storeVars, modelVars, valueVars>>

(***************************************************************************)
(* Option and HashMap helpers.                                             *)
(***************************************************************************)
None == {}
Some(x) == {x}

EmptyMap == [k \in {} |-> 0]
\* HashMap::insert: the entry under k is replaced, every other entry is kept
MapInsert(m, k, v) == [x \in (DOMAIN m) \cup {k} |-> IF x = k THEN v ELSE m[x]]

(***************************************************************************)
(* The interception lifecycle manager.                                     *)
(***************************************************************************)
Tasks == 1..NumTasks
NoTask == 0
Interfaces == {"eth0", "eth1"}
DefaultBpfPath == "/opt/aegisnet/bpf"
Paths == {DefaultBpfPath, "/etc/aegisnet/custom.o"}
ProgNames == {"xdp_firewall", "tc_policy", "tp_connect"}
Ops == {"load", "unload", "reload"}

\* the interface lists of length at most MaxIfaces
RECURSIVE SeqsUpTo(_, _)
SeqsUpTo(S, n) ==
    IF n = 0 THEN {<<>>}
    ELSE LET shorter == SeqsUpTo(S, n - 1)
         IN  shorter \cup {Append(s, x) : s \in {q \in shorter : Len(q) = n - 1}, x \in S}

\* the keys of loaded_programs: format!("xdp_{}", interface), format!("tc_{}", interface)
\* and "tp_connect", as pairs (the prefix, the rest)
XdpKey(interface) == <<"xdp", interface>>
TcKey(interface) == <<"tc", interface>>
TpKey == <<"tp", "connect">>

XdpInfo(interface) ==
    [program_type |-> "Xdp", name |-> "xdp_firewall", attach_point |-> interface, active |-> TRUE]
TcInfo(interface) ==
    [program_type |-> "Tc", name |-> "tc_policy", attach_point |-> interface, active |-> TRUE]
TpInfo ==
    [program_type |-> "TracePoint", name |-> "tp_connect",
     attach_point |-> "inet_sock_set_state", active |-> TRUE]

\* the fields of the loader, as one value
LoaderState ==
    [hook_manager |-> hook_manager, map_manager |-> map_manager,
     loaded_programs |-> loaded_programs, bpf_path |-> bpf_path]

NoSnapshot == {}
IdleCall ==
    [op |-> "none", result |-> "none", steps |-> <<>>, pre |-> NoSnapshot,
     at_load |-> NoSnapshot, exists |-> {}, hm |-> None, mm |-> None, progs |-> {}, i |-> 0,
     attempted |-> {}, failed |-> {}]

\* EbpfLoader::new, and a ConfigManager built from some configuration file
LoaderInit ==
    /\ config \in [bpf_path : Paths, interfaces : SeqsUpTo(Interfaces, MaxIfaces)]
    /\ hook_manager = None
    /\ map_manager = None
    /\ loaded_programs = EmptyMap
    /\ bpf_path = DefaultBpfPath
    /\ loader_lock = NoTask
    /\ config_lock = [writer |-> NoTask, readers |-> {}]
    /\ lpc = [t \in Tasks |-> "idle"]
    /\ lcall = [t \in Tasks |-> IdleCall]

\* a task calls ebpf_loader.write().await: the call waits for the lock
Request(t) ==
    /\ lpc[t] = "idle"
    /\ lpc' = [lpc EXCEPT ![t] = "acquire"]
    /\ UNCHANGED <<config, hook_manager, map_manager, loaded_programs, bpf_path,
                   loader_lock, config_lock, lcall>>
    /\ UNCHANGED notLoaderVars

\* faulty variant: the reload does not wait for the write guard
WriteLockFree_NotExclusive == TRUE

\* RwLock::write grants the guard only when no other guard is out
WriteLockFree == loader_lock = NoTask

\* the guard is granted and the task calls load_programs (Agent::start),
\* unload_programs (Agent::stop) or reload_programs (the configuration watcher)
Acquire(t, op) ==
    /\ lpc[t] = "acquire"
    /\ WriteLockFree
    /\ loader_lock' = t
    /\ lpc' = [lpc EXCEPT ![t] = IF op = "load" THEN "load_cfg" ELSE "unload"]
    /\ lcall' = [lcall EXCEPT ![t] = [IdleCall EXCEPT !.op = op, !.pre = Some(LoaderState)]]
    /\ UNCHANGED <<config, hook_manager, map_manager, loaded_programs, bpf_path,
                   config_lock>>
    /\ UNCHANGED notLoaderVars

\* HookManager::detach_all clears its program lists and returns Ok(())
DetachAllResult == "Ok"

\* faulty variant: unloading with nothing attached is reported as an error
UnloadPrograms_ErrWhenDetached(t) ==
    /\ lpc[t] = "unload"
    /\ hook_manager' = None
    /\ loaded_programs' = EmptyMap
    /\ map_manager' = None
    /\ IF lcall[t].op = "unload" \/ hook_manager = None
       THEN /\ lpc' = [lpc EXCEPT ![t] = "ret"]
            /\ lcall' = [lcall EXCEPT ![t].result = IF hook_manager = None THEN "Err" ELSE "Ok",
                                      ![t].steps = Append(@, "unload_programs")]
       ELSE /\ lpc' = [lpc EXCEPT ![t] = "load_cfg"]
            /\ lcall' = [lcall EXCEPT ![t].steps = Append(@, "unload_programs")]
    /\ UNCHANGED <<config, bpf_path, loader_lock, config_lock>>
    /\ UNCHANGED notLoaderVars

\* EbpfLoader::unload_programs
UnloadPrograms(t) ==
    /\ lpc[t] = "unload"
    /\ hook_manager' = None
    /\ loaded_programs' = EmptyMap
    /\ map_manager' = None
    /\ IF lcall[t].op = "unload"
       THEN /\ lpc' = [lpc EXCEPT ![t] = "ret"]
            /\ lcall' = [lcall EXCEPT ![t].result = DetachAllResult,
                                      ![t].steps = Append(@, "unload_programs")]
       ELSE /\ lpc' = [lpc EXCEPT ![t] = "load_cfg"]
            /\ lcall' = [lcall EXCEPT ![t].steps = Append(@, "unload_programs")]
    /\ UNCHANGED <<config, bpf_path, loader_lock, config_lock>>
    /\ UNCHANGED notLoaderVars

\* load_programs, line 68: self.config.read().await
LoadConfigRead(t) ==
    /\ lpc[t] = "load_cfg"
    /\ config_lock.writer = NoTask
    /\ config_lock' = [config_lock EXCEPT !.readers = @ \cup {t}]
    /\ lpc' = [lpc EXCEPT ![t] = "load_path"]
    /\ lcall' = [lcall EXCEPT ![t].at_load = Some(LoaderState),
                              ![t].steps = Append(@, "load_programs")]
    /\ UNCHANGED <<config, hook_manager, map_manager, loaded_programs, bpf_path,
                   loader_lock>>
    /\ UNCHANGED notLoaderVars

\* a load_programs that returns Err: its locals (the hook manager, the map manager,
\* the config read guard) are dropped
LoadFails(t, frame) ==
    /\ lpc' = [lpc EXCEPT ![t] = "ret"]
    /\ lcall' = [lcall EXCEPT ![t] = [frame EXCEPT !.result = "Err", !.hm = None, !.mm = None]]
    /\ config_lock' = [config_lock EXCEPT !.readers = @ \ {t}]

\* faulty variant: the path is not checked for existence
LoadPath_NoExistsCheck(t) ==
    /\ lpc[t] = "load_path"
    /\ bpf_path' = config.bpf_path
    /\ \E exists \in BOOLEAN :
         /\ lpc' = [lpc EXCEPT ![t] = "load_artifact"]
         /\ lcall' = [lcall EXCEPT ![t].exists = {exists}]
         /\ UNCHANGED config_lock
    /\ UNCHANGED <<config, hook_manager, map_manager, loaded_programs, loader_lock>>
    /\ UNCHANGED notLoaderVars

\* load_programs, lines 69-75: the path is taken from the configuration and must exist
LoadPath(t) ==
    /\ lpc[t] = "load_path"
    /\ bpf_path' = config.bpf_path
    /\ \E exists \in BOOLEAN :
         LET frame == [lcall[t] EXCEPT !.exists = {exists}]
         IN  IF ~exists
             THEN LoadFails(t, frame)
             ELSE /\ lpc' = [lpc EXCEPT ![t] = "load_artifact"]
                  /\ lcall' = [lcall EXCEPT ![t] = frame]
                  /\ UNCHANGED config_lock
    /\ UNCHANGED <<config, hook_manager, map_manager, loaded_programs, loader_lock>>
    /\ UNCHANGED notLoaderVars

\* what Bpf::load_file can find at the path: a blob that does not parse, or an object
\* with some of the three programs and with or without the three maps
Artifacts ==
    {[valid |-> FALSE, progs |-> {}, maps |-> FALSE]}
    \cup [valid : {TRUE}, progs : SUBSET ProgNames, maps : BOOLEAN]

\* load_programs, lines 80-98: the hook manager is created from the artifact, then the
\* map manager from its three maps
LoadArtifact(t) ==
    /\ lpc[t] = "load_artifact"
    /\ \E art \in Artifacts :
         IF ~art.valid \/ ~art.maps
         THEN LoadFails(t, lcall[t])
         ELSE /\ lpc' = [lpc EXCEPT ![t] = "attach"]
              /\ lcall' = [lcall EXCEPT ![t].hm = Some("HookManager"),
                                        ![t].mm = Some("MapManager"),
                                        ![t].progs = art.progs,
                                        ![t].i = 1,
                                        ![t].steps = Append(@, "attach_programs")]
              /\ UNCHANGED config_lock
    /\ UNCHANGED <<config, hook_manager, map_manager, loaded_programs, bpf_path,
                   loader_lock>>
    /\ UNCHANGED notLoaderVars

\* the programs of the Bpf object the call's local hook manager holds
LocalProgs(t) == lcall[t].progs

\* attach_programs, lines 117-132: the XDP program on one interface. r is the state of
\* the loop so far: [programs, ok, attempted, failed]
AttachXdp(r, progs, interface, attach_ok) ==
    IF "xdp_firewall" \notin progs THEN r
    ELSE IF ~attach_ok
    THEN [r EXCEPT !.ok = FALSE, !.attempted = @ \cup {XdpKey(interface)},
                   !.failed = @ \cup {XdpKey(interface)}]
    ELSE [r EXCEPT !.programs = MapInsert(@, XdpKey(interface), XdpInfo(interface)),
                   !.attempted = @ \cup {XdpKey(interface)}]

\* faulty variant: the TC registration is stored under the XDP key of the interface
AttachTc_WrongKey(r, progs, interface, attach_ok) ==
    IF ~r.ok \/ "tc_policy" \notin progs THEN r
    ELSE IF ~attach_ok
    THEN [r EXCEPT !.ok = FALSE, !.attempted = @ \cup {<<"tc", interface>>},
                   !.failed = @ \cup {<<"tc", interface>>}]
    ELSE [r EXCEPT !.programs = MapInsert(@, XdpKey(interface), TcInfo(interface)),
                   !.attempted = @ \cup {<<"tc", interface>>}]

\* attach_programs, lines 134-149: the TC program on one interface; not reached when
\* the XDP attach returned early
AttachTc(r, progs, interface, attach_ok) ==
    IF ~r.ok \/ "tc_policy" \notin progs THEN r
    ELSE IF ~attach_ok
    THEN [r EXCEPT !.ok = FALSE, !.attempted = @ \cup {TcKey(interface)},
                   !.failed = @ \cup {TcKey(interface)}]
    ELSE [r EXCEPT !.programs = MapInsert(@, TcKey(interface), TcInfo(interface)),
                   !.attempted = @ \cup {TcKey(interface)}]

\* attach_programs, lines 152-167: the trace point
AttachTp(r, progs, attach_ok) ==
    IF "tp_connect" \notin progs THEN r
    ELSE IF ~attach_ok
    THEN [r EXCEPT !.ok = FALSE, !.attempted = @ \cup {TpKey}, !.failed = @ \cup {TpKey}]
    ELSE [r EXCEPT !.programs = MapInsert(@, TpKey, TpInfo),
                   !.attempted = @ \cup {TpKey}]

\* after one attach step
AttachOutcome(t, r, next_pc) ==
    /\ loaded_programs' = r.programs
    /\ LET frame == [lcall[t] EXCEPT !.attempted = r.attempted, !.failed = r.failed,
                                     !.i = @ + 1]
       IN  IF ~r.ok
           THEN LoadFails(t, frame)
           ELSE /\ lpc' = [lpc EXCEPT ![t] = next_pc]
                /\ lcall' = [lcall EXCEPT ![t] = frame]
                /\ UNCHANGED config_lock

\* attach_programs, lines 116-150: one turn of the loop over the interfaces
AttachInterface(t) ==
    /\ lpc[t] = "attach"
    /\ lcall[t].i <= Len(config.interfaces)
    /\ \E xdp_ok \in BOOLEAN, tc_ok \in BOOLEAN :
         LET interface == config.interfaces[lcall[t].i]
             r0 == [programs |-> loaded_programs, ok |-> TRUE,
                    attempted |-> lcall[t].attempted, failed |-> lcall[t].failed]
             r1 == AttachXdp(r0, LocalProgs(t), interface, xdp_ok)
             r2 == AttachTc(r1, LocalProgs(t), interface, tc_ok)
         IN  AttachOutcome(t, r2, "attach")
    /\ UNCHANGED <<config, hook_manager, map_manager, bpf_path, loader_lock>>
    /\ UNCHANGED notLoaderVars

\* attach_programs, lines 152-169: after the loop
AttachTracePoint(t) ==
    /\ lpc[t] = "attach"
    /\ lcall[t].i > Len(config.interfaces)
    /\ \E tp_ok \in BOOLEAN :
         LET r0 == [programs |-> loaded_programs, ok |-> TRUE,
                    attempted |-> lcall[t].attempted, failed |-> lcall[t].failed]
         IN  AttachOutcome(t, AttachTp(r0, LocalProgs(t), tp_ok), "save")
    /\ UNCHANGED <<config, hook_manager, map_manager, bpf_path, loader_lock>>
    /\ UNCHANGED notLoaderVars

\* load_programs, lines 104-108: the managers are kept and the call returns Ok
LoadSave(t) ==
    /\ lpc[t] = "save"
    /\ hook_manager' = lcall[t].hm
    /\ map_manager' = lcall[t].mm
    /\ lpc' = [lpc EXCEPT ![t] = "ret"]
    /\ lcall' = [lcall EXCEPT ![t].result = "Ok", ![t].hm = None, ![t].mm = None]
    /\ config_lock' = [config_lock EXCEPT !.readers = @ \ {t}]
    /\ UNCHANGED <<config, loaded_programs, bpf_path, loader_lock>>
    /\ UNCHANGED notLoaderVars

\* the call has returned: the write guard is dropped
Release(t) ==
    /\ lpc[t] = "ret"
    /\ loader_lock' = NoTask
    /\ lpc' = [lpc EXCEPT ![t] = "idle"]
    /\ lcall' = [lcall EXCEPT ![t] = IdleCall]
    /\ UNCHANGED <<config, hook_manager, map_manager, loaded_programs, bpf_path, config_lock>>
    /\ UNCHANGED notLoaderVars

LoaderNext ==
    \E t \in Tasks :
        \/ Request(t)
        \/ \E op \in Ops : Acquire(t, op)
        \/ UnloadPrograms(t)
        \/ LoadConfigRead(t)
        \/ LoadPath(t)
        \/ LoadArtifact(t)
        \/ AttachInterface(t)
        \/ AttachTracePoint(t)
        \/ LoadSave(t)
        \/ Release(t)

(***************************************************************************)
(* Properties of the interception lifecycle manager.                       *)
(***************************************************************************)
InFlight(t) == lpc[t] \notin {"idle", "acquire"}
AtRet(t) == lpc[t] = "ret"
PreState(t) == CHOOSE s \in lcall[t].pre : TRUE
AtLoadState(t) == CHOOSE s \in lcall[t].at_load : TRUE
IsLoadCall(t) == lcall[t].op \in {"load", "reload"}
ReachedAttach(t) == \E k \in 1..Len(lcall[t].steps) : lcall[t].steps[k] = "attach_programs"
Unloaded(s) ==
    s.hook_manager = None /\ s.map_manager = None /\ s.loaded_programs = EmptyMap
DistinctSeq(q) == \A a, b \in 1..Len(q) : q[a] = q[b] => a = b
IfaceSet(q) == {q[k] : k \in 1..Len(q)}
\* the targets of one interface for the programs the loaded artifact holds
IfaceTargets(interface, progs) ==
    (IF "xdp_firewall" \in progs THEN {XdpKey(interface)} ELSE {})
    \cup (IF "tc_policy" \in progs THEN {TcKey(interface)} ELSE {})
\* the registration set the contract asks for after a full attach
ExpectedPrograms(q) ==
    [k \in {XdpKey(x) : x \in IfaceSet(q)} \cup {TcKey(x) : x \in IfaceSet(q)} \cup {TpKey} |->
        IF k = TpKey THEN TpInfo
        ELSE IF k[1] = "xdp" THEN XdpInfo(k[2]) ELSE TcInfo(k[2])]

\* C1: an attach failure on one interface does not prevent the attach attempts on the
\* other interfaces of the list: when attach_programs has returned, every interface
\* on which no attach failed has had its programs attached, and their registrations
\* are present and active.
C1_AttachPerInterfaceIndependent ==
    \A t \in Tasks :
        (AtRet(t) /\ IsLoadCall(t) /\ ReachedAttach(t)) =>
            \A x \in IfaceSet(config.interfaces) :
                (\A k \in lcall[t].failed : k[2] # x) =>
                    \A k \in IfaceTargets(x, lcall[t].progs) :
                        /\ k \in lcall[t].attempted
                        /\ k \in DOMAIN loaded_programs
                        /\ loaded_programs[k].active

\* C2: a reload whose load or attach step fails ends either fully unloaded (no
\* registration, no hook manager, no map manager) or with the complete pre-reload
\* state, never with only some registrations or registrations without an artifact.
C2_FailedReloadWellDefined ==
    \A t \in Tasks :
        (AtRet(t) /\ lcall[t].op = "reload" /\ lcall[t].result = "Err") =>
            Unloaded(LoaderState) \/ LoaderState = PreState(t)

\* C3: at most one loader call is in flight at any time, it holds the write guard,
\* and a reload runs unload_programs, load_programs, attach_programs in that order
\* while every other requested reload waits.
C3_ReloadSerialized ==
    /\ \A t1, t2 \in Tasks : (InFlight(t1) /\ InFlight(t2)) => t1 = t2
    /\ \A t \in Tasks : InFlight(t) => loader_lock = t
    /\ \A t \in Tasks :
         (InFlight(t) /\ lcall[t].op = "reload") =>
            /\ lcall[t].steps = SubSeq(<<"unload_programs", "load_programs", "attach_programs">>,
                                       1, Len(lcall[t].steps))
            /\ (AtRet(t) /\ lcall[t].result = "Ok") => Len(lcall[t].steps) = 3

\* C3 witness: one reload has run all three steps while another request waits
C3_Witness ==
    \E t1, t2 \in Tasks :
        /\ AtRet(t1) /\ lcall[t1].op = "reload" /\ lcall[t1].result = "Ok"
        /\ lpc[t2] = "acquire"

\* C4: unload_programs always returns Ok and leaves the registration set empty, and
\* called on a loader that an unload has just emptied it changes nothing.
C4_DetachAllIdempotent ==
    \A t \in Tasks :
        (AtRet(t) /\ lcall[t].op = "unload") =>
            /\ lcall[t].result = "Ok"
            /\ loaded_programs = EmptyMap
            /\ Unloaded(PreState(t)) => LoaderState = PreState(t)

\* C4 witness: an unload returns on a loader that was already unloaded after a load
\* had set its path
C4_Witness ==
    \E t \in Tasks :
        /\ AtRet(t) /\ lcall[t].op = "unload"
        /\ Unloaded(PreState(t))
        /\ PreState(t).bpf_path # DefaultBpfPath

C6_LoadMissingPath ==
    \A t \in Tasks :
        (AtRet(t) /\ lcall[t].exists = {FALSE}) =>
            /\ lcall[t].result = "Err"
            /\ lcall[t].attempted = {}
            /\ loaded_programs = AtLoadState(t).loaded_programs
            /\ hook_manager = AtLoadState(t).hook_manager
            /\ map_manager = AtLoadState(t).map_manager

\* C6 witness: a load on a loader that holds registrations found no file at the path
C6_Witness ==
    \E t \in Tasks :
        /\ AtRet(t) /\ lcall[t].op = "load" /\ lcall[t].exists = {FALSE}
        /\ loaded_programs # EmptyMap

\* C34: whenever no loader call is in flight (get_loaded_programs can be
\* called), the registration set is non-empty only if the hook manager and
\* the map manager are both present; and a load or reload whose attach step
\* failed has returned with an empty registration set.
C34_RegistrationsNeedManagers ==
    /\ loader_lock = NoTask =>
           (loaded_programs # EmptyMap => hook_manager # None /\ map_manager # None)
    /\ \A t \in Tasks :
           (AtRet(t) /\ IsLoadCall(t) /\ lcall[t].failed # {}) =>
               loaded_programs = EmptyMap

(***************************************************************************)
(* The policy execution engine.                                            *)
(*                                                                         *)
(* load_policy and unload_policy take &mut self, execute_policy and        *)
(* list_policies take &self: a caller runs a &mut self method only while   *)
(* no other call on the engine is in progress, and a &self method only     *)
(* while no &mut self method is.                                           *)
(***************************************************************************)
Threads == 1..NumThreads
PolicyIds == {"p1", "p2"}
Contexts == {"c1", "c2"}
NoModule == "NoModule"
\* the modules the model loads: what each does is RegisterOk and RunFunction below
Modules == {"AllowAll", "ByContext", "Trap", "NeedsImport", "Loop"}
\* the files a caller can name: five WebAssembly modules and a file that is none
WasmPaths == {"allow.wasm", "byctx.wasm", "trap.wasm", "import.wasm", "loop.wasm",
              "garbage.bin"}
Verdicts == {"Allow", "Deny", "NeedInspection"}

\* Module::from_file: Some(module), or None when the file does not parse
ModuleFromFile(path) ==
    CASE path = "allow.wasm" -> Some("AllowAll")
      [] path = "byctx.wasm" -> Some("ByContext")
      [] path = "trap.wasm" -> Some("Trap")
      [] path = "import.wasm" -> Some("NeedsImport")
      [] path = "loop.wasm" -> Some("Loop")
      [] OTHER -> None

\* Vm::register_module: a module whose imports the Vm cannot resolve is refused
RegisterOk(module) == module \in Modules /\ module # "NeedsImport"

\* Vm::run_function("evaluate", context): the i32 the function returns, or a trap
RunFunction(module, ctx) ==
    CASE module = "AllowAll" -> [trap |-> FALSE, value |-> 0]
      [] module = "ByContext" -> [trap |-> FALSE, value |-> IF ctx = "c1" THEN 1 ELSE 7]
      [] module = "Trap" /\ ctx = "c1" -> [trap |-> FALSE, value |-> -1]
      [] OTHER -> [trap |-> TRUE, value |-> 0]

\* Vm::run_function("evaluate", context) does not return: evaluate loops for ever and
\* execute_policy sets no limit on the run (no timeout, no fuel, no interrupt)
Diverges(module, ctx) == module = "Loop"

\* execute_policy, lines 73-77: the match on the i32
MatchResult(value) ==
    IF value = 0 THEN "Allow" ELSE IF value = 1 THEN "Deny" ELSE "NeedInspection"

\* faulty variant: a failed run falls back to Allow
RunOutcome_FailOpen(module, ctx) ==
    LET r == RunFunction(module, ctx)
    IN  IF r.trap THEN "Allow" ELSE MatchResult(r.value)

\* execute_policy, lines 70-77: the ? on run_function, then the match
RunOutcome(module, ctx) ==
    LET r == RunFunction(module, ctx)
    IN  IF r.trap THEN "PolicyExecutionError" ELSE MatchResult(r.value)

\* faulty variant: the lookup returns whatever entry the cache holds first
CacheGet_AnyKey(cache, id) ==
    IF \A k \in PolicyIds : cache[k] = NoModule THEN None
    ELSE Some(CHOOSE k \in PolicyIds : cache[k] # NoModule)

\* HashMap::get: None, or a reference to the entry, which is modelled as its key
CacheGet(cache, id) == IF cache[id] = NoModule THEN None ELSE Some(id)

\* faulty variant: an id that is already registered keeps its module
CacheInsert_KeepOld(cache, id, module) ==
    IF cache[id] = NoModule THEN [cache EXCEPT ![id] = module] ELSE cache

\* HashMap::insert
CacheInsert(cache, id, module) == [cache EXCEPT ![id] = module]

\* HashMap::keys
CacheKeys(cache) == {id \in PolicyIds : cache[id] # NoModule}

IdleFrame ==
    [op |-> "none", id |-> "", ctx |-> "", pre |-> {}, module_ref |-> None, active |-> None,
     list |-> <<>>, result |-> "none"]
NoWrite == [op |-> "none", id |-> "", path |-> "", result |-> "none", pre |-> {}]

\* WasmPolicyEngine::new
PolicyInit ==
    /\ policy_cache = [id \in PolicyIds |-> NoModule]
    /\ vm = {}
    /\ ppc = [t \in Threads |-> "idle"]
    /\ pcall = [t \in Threads |-> IdleFrame]
    /\ last_write = NoWrite
    /\ loaded_ids = {}

\* faulty variant: a &mut self call runs while other calls are in progress
ExclusiveBorrow_Shared(t) == TRUE

\* &mut self: no other call on the engine is in progress
ExclusiveBorrow(t) == \A u \in Threads \ {t} : ppc[u] \in {"idle", "wait_mut"}

\* &self: no &mut self call is in progress (the &mut self calls are single steps)
SharedBorrow(t) == TRUE

\* a thread asks for the engine to load or unload a policy and waits for its turn
RequestMut(t) ==
    /\ ppc[t] = "idle"
    /\ ppc' = [ppc EXCEPT ![t] = "wait_mut"]
    /\ UNCHANGED <<policy_cache, vm, pcall, last_write, loaded_ids>>
    /\ UNCHANGED notPolicyVars

\* faulty variant: a load that fails drops the module registered under the id
LoadPolicy_EvictsOnFailure(t, id, path) ==
    /\ ppc[t] = "wait_mut"
    /\ ExclusiveBorrow(t)
    /\ LET module == ModuleFromFile(path)
       IN  IF module = None
           THEN /\ policy_cache' = [policy_cache EXCEPT ![id] = NoModule]
                /\ last_write' = [op |-> "load", id |-> id, path |-> path, result |-> "Err",
                                  pre |-> Some(policy_cache)]
                /\ UNCHANGED loaded_ids
           ELSE /\ policy_cache' = CacheInsert(policy_cache, id, CHOOSE m \in module : TRUE)
                /\ last_write' = [op |-> "load", id |-> id, path |-> path, result |-> "Ok",
                                  pre |-> Some(policy_cache)]
                /\ loaded_ids' = loaded_ids \cup {id}
    /\ ppc' = [ppc EXCEPT ![t] = "idle"]
    /\ UNCHANGED <<vm, pcall>>
    /\ UNCHANGED notPolicyVars

\* WasmPolicyEngine::load_policy
LoadPolicy(t, id, path) ==
    /\ ppc[t] = "wait_mut"
    /\ ExclusiveBorrow(t)
    /\ LET module == ModuleFromFile(path)
       IN  IF module = None
           THEN /\ last_write' = [op |-> "load", id |-> id, path |-> path, result |-> "Err",
                                  pre |-> Some(policy_cache)]
                /\ UNCHANGED <<policy_cache, loaded_ids>>
           ELSE /\ policy_cache' = CacheInsert(policy_cache, id, CHOOSE m \in module : TRUE)
                /\ last_write' = [op |-> "load", id |-> id, path |-> path, result |-> "Ok",
                                  pre |-> Some(policy_cache)]
                /\ loaded_ids' = loaded_ids \cup {id}
    /\ ppc' = [ppc EXCEPT ![t] = "idle"]
    /\ UNCHANGED <<vm, pcall>>
    /\ UNCHANGED notPolicyVars

\* faulty variant: HashMap::contains_key in place of HashMap::remove
UnloadPolicy_KeepsEntry(t, id) ==
    /\ ppc[t] = "wait_mut"
    /\ ExclusiveBorrow(t)
    /\ UNCHANGED policy_cache
    /\ last_write' = [op |-> "unload", id |-> id, path |-> "",
                      result |-> IF policy_cache[id] # NoModule THEN "true" ELSE "false",
                      pre |-> Some(policy_cache)]
    /\ loaded_ids' = loaded_ids \ {id}
    /\ ppc' = [ppc EXCEPT ![t] = "idle"]
    /\ UNCHANGED <<vm, pcall>>
    /\ UNCHANGED notPolicyVars

\* WasmPolicyEngine::unload_policy: HashMap::remove(id).is_some()
UnloadPolicy(t, id) ==
    /\ ppc[t] = "wait_mut"
    /\ ExclusiveBorrow(t)
    /\ policy_cache' = [policy_cache EXCEPT ![id] = NoModule]
    /\ last_write' = [op |-> "unload", id |-> id, path |-> "",
                      result |-> IF policy_cache[id] # NoModule THEN "true" ELSE "false",
                      pre |-> Some(policy_cache)]
    /\ loaded_ids' = loaded_ids \ {id}
    /\ ppc' = [ppc EXCEPT ![t] = "idle"]
    /\ UNCHANGED <<vm, pcall>>
    /\ UNCHANGED notPolicyVars

\* execute_policy, lines 64 and 78-80: the lookup
ExecBegin(t, id, ctx) ==
    /\ ppc[t] = "idle"
    /\ SharedBorrow(t)
    /\ LET frame == [IdleFrame EXCEPT !.op = "exec", !.id = id, !.ctx = ctx,
                                      !.pre = Some(policy_cache)]
       IN  IF CacheGet(policy_cache, id) = None
           THEN /\ ppc' = [ppc EXCEPT ![t] = "ret"]
                /\ pcall' = [pcall EXCEPT ![t] = [frame EXCEPT !.result = "PolicyNotFound"]]
           ELSE /\ ppc' = [ppc EXCEPT ![t] = "register"]
                /\ pcall' = [pcall EXCEPT ![t] =
                                [frame EXCEPT !.module_ref = CacheGet(policy_cache, id)]]
    /\ UNCHANGED <<policy_cache, vm, last_write, loaded_ids>>
    /\ UNCHANGED notPolicyVars

\* execute_policy, lines 66-67: the Vm is cloned and the module, read through the
\* reference into the cache, is registered in the clone
ExecRegister(t) ==
    /\ ppc[t] = "register"
    /\ LET module == policy_cache[CHOOSE k \in pcall[t].module_ref : TRUE]
       IN  IF RegisterOk(module)
           THEN /\ ppc' = [ppc EXCEPT ![t] = "run"]
                /\ pcall' = [pcall EXCEPT ![t].active = Some(module), ![t].module_ref = None]
           ELSE /\ ppc' = [ppc EXCEPT ![t] = "ret"]
                /\ pcall' = [pcall EXCEPT ![t].result = "PolicyExecutionError",
                                          ![t].module_ref = None]
    /\ UNCHANGED <<policy_cache, vm, last_write, loaded_ids>>
    /\ UNCHANGED notPolicyVars

\* execute_policy, lines 70-77: evaluate runs in the clone's active module; when it
\* does not return, neither does execute_policy
ExecRun(t) ==
    /\ ppc[t] = "run"
    /\ IF Diverges(CHOOSE m \in pcall[t].active : TRUE, pcall[t].ctx)
       THEN \* the thread is inside run_function from now on
            /\ ppc' = [ppc EXCEPT ![t] = "blocked"]
            /\ UNCHANGED pcall
       ELSE /\ ppc' = [ppc EXCEPT ![t] = "ret"]
            /\ pcall' = [pcall EXCEPT ![t].result =
                            RunOutcome(CHOOSE m \in pcall[t].active : TRUE, pcall[t].ctx),
                                      ![t].active = None]
    /\ UNCHANGED <<policy_cache, vm, last_write, loaded_ids>>
    /\ UNCHANGED notPolicyVars

\* the orders in which a HashMap can iterate over the keys
RECURSIVE KeyOrders(_)
KeyOrders(S) ==
    IF S = {} THEN {<<>>}
    ELSE UNION {{<<x>> \o rest : rest \in KeyOrders(S \ {x})} : x \in S}

\* WasmPolicyEngine::list_policies
ListPolicies(t) ==
    /\ ppc[t] = "idle"
    /\ SharedBorrow(t)
    /\ \E order \in KeyOrders(CacheKeys(policy_cache)) :
         pcall' = [pcall EXCEPT ![t] = [IdleFrame EXCEPT !.op = "list", !.list = order,
                                                         !.pre = Some(policy_cache),
                                                         !.result = "Ok"]]
    /\ ppc' = [ppc EXCEPT ![t] = "ret"]
    /\ UNCHANGED <<policy_cache, vm, last_write, loaded_ids>>
    /\ UNCHANGED notPolicyVars

\* the caller has its result
PolicyReturn(t) ==
    /\ ppc[t] = "ret"
    /\ ppc' = [ppc EXCEPT ![t] = "idle"]
    /\ pcall' = [pcall EXCEPT ![t] = IdleFrame]
    /\ UNCHANGED <<policy_cache, vm, last_write, loaded_ids>>
    /\ UNCHANGED notPolicyVars

PolicyNext ==
    \E t \in Threads :
        \/ RequestMut(t)
        \/ \E id \in PolicyIds, path \in WasmPaths : LoadPolicy(t, id, path)
        \/ \E id \in PolicyIds : UnloadPolicy(t, id)
        \/ \E id \in PolicyIds, ctx \in Contexts : ExecBegin(t, id, ctx)
        \/ ExecRegister(t)
        \/ ExecRun(t)
        \/ ListPolicies(t)
        \/ PolicyReturn(t)

(***************************************************************************)
(* Properties of the policy execution engine.                              *)
(***************************************************************************)
ExecAtRet(t) == ppc[t] = "ret" /\ pcall[t].op = "exec"
\* the cache as it was when the call began
StartCache(t) == CHOOSE c \in pcall[t].pre : TRUE
StartModule(t) == StartCache(t)[pcall[t].id]
\* the sandbox fails on this module and context
SandboxFails(module, ctx) == ~RegisterOk(module) \/ RunFunction(module, ctx).trap
\* what a module, alone in the engine, produces for a context
AloneOutcome(module, ctx) ==
    IF SandboxFails(module, ctx) THEN "PolicyExecutionError"
    ELSE MatchResult(RunFunction(module, ctx).value)
Count(l, x) == Cardinality({k \in 1..Len(l) : l[k] = x})
LastLoadOk == last_write.op = "load" /\ last_write.result = "Ok"
LastLoaded == CHOOSE m \in ModuleFromFile(last_write.path) : TRUE
LastPre == CHOOSE c \in last_write.pre : TRUE

\* C7: with load_policy calls pending and running between execute_policy calls, every
\* execute_policy call returns what the module registered when it began produces
\* alone; while the call is in progress that module stays registered and the call's
\* next step can always be taken.
C7_HotSwapIsolation ==
    \A t \in Threads :
        /\ (ExecAtRet(t) /\ StartModule(t) # NoModule) =>
              pcall[t].result = AloneOutcome(StartModule(t), pcall[t].ctx)
        /\ (ppc[t] \in {"register", "run"}) => policy_cache = StartCache(t)
        /\ (ppc[t] = "register") => ENABLED ExecRegister(t)
        /\ (ppc[t] = "run") => ENABLED ExecRun(t)

\* C7 witness: a call answered by the module that replaced another one under the
\* same id, while a further load_policy or unload_policy is waiting
C7_Witness ==
    \E t, u \in Threads :
        /\ ExecAtRet(t) /\ pcall[t].result \in Verdicts
        /\ ppc[u] = "wait_mut"
        /\ LastLoadOk /\ last_write.id = pcall[t].id
        /\ LastPre[last_write.id] \notin {NoModule, LastLoaded}

\* C8: after a successful load_policy(id, B) the cache holds B under id and what it
\* held under every other id, list_policies names id exactly once, and every
\* execute_policy(id, ctx) until the next load or unload is answered by B.
C8_LoadReplaces ==
    LastLoadOk =>
        /\ policy_cache[last_write.id] = LastLoaded
        /\ \A o \in PolicyIds \ {last_write.id} : policy_cache[o] = LastPre[o]
        /\ \A l \in KeyOrders(CacheKeys(policy_cache)) : Count(l, last_write.id) = 1
        /\ \A t \in Threads :
             /\ (ppc[t] = "ret" /\ pcall[t].op = "list") => Count(pcall[t].list, last_write.id) = 1
             /\ (ExecAtRet(t) /\ pcall[t].id = last_write.id) =>
                   pcall[t].result = AloneOutcome(LastLoaded, pcall[t].ctx)

\* C8 witness: B replaced a different module A, another id is registered, and an
\* execute_policy on the id has returned
C8_Witness ==
    /\ LastLoadOk
    /\ LastPre[last_write.id] \notin {NoModule, LastLoaded}
    /\ \E o \in PolicyIds \ {last_write.id} : policy_cache[o] # NoModule
    /\ \E t \in Threads : ExecAtRet(t) /\ pcall[t].id = last_write.id

\* C38: a load_policy(id, path) that fails to build the module returns an error
\* and leaves the engine as it was: the module registered under id stays
\* registered and keeps answering execute_policy(id, ctx), and list_policies
\* names the ids it named before the call.
C38_FailedLoadKeepsEngine ==
    last_write.op = "load" =>
        /\ (ModuleFromFile(last_write.path) = None) => last_write.result = "Err"
        /\ last_write.result = "Err" =>
             /\ policy_cache = LastPre
             /\ \A t \in Threads :
                  /\ (ExecAtRet(t) /\ pcall[t].id = last_write.id
                        /\ LastPre[last_write.id] # NoModule) =>
                        pcall[t].result = AloneOutcome(LastPre[last_write.id], pcall[t].ctx)
                  /\ (ppc[t] = "ret" /\ pcall[t].op = "list") =>
                        {pcall[t].list[k] : k \in 1..Len(pcall[t].list)} = CacheKeys(LastPre)

\* C38 witness: a load on a registered id has failed, and an execute_policy on
\* the id has since returned a verdict
C38_Witness ==
    /\ last_write.op = "load"
    /\ last_write.result = "Err"
    /\ LastPre[last_write.id] # NoModule
    /\ \E t \in Threads :
         ExecAtRet(t) /\ pcall[t].id = last_write.id /\ pcall[t].result \in Verdicts

C10_SandboxFailureIsError ==
    \A t \in Threads :
        (ExecAtRet(t) /\ StartModule(t) # NoModule
            /\ SandboxFails(StartModule(t), pcall[t].ctx)) =>
            /\ pcall[t].result = "PolicyExecutionError"
            /\ policy_cache = StartCache(t)
            /\ vm = {}
            /\ ENABLED PolicyReturn(t)
            /\ \A u \in Threads : ppc[u] = "idle" => ENABLED ExecBegin(u, pcall[t].id, pcall[t].ctx)

\* C10 witness: evaluate trapped in one call and the same module answered another
C10_Witness ==
    \E t, u \in Threads :
        /\ ExecAtRet(t) /\ pcall[t].result = "PolicyExecutionError"
        /\ StartModule(t) = "Trap"
        /\ ExecAtRet(u) /\ pcall[u].id = pcall[t].id /\ pcall[u].result = "NeedInspection"

\* C11: no execute_policy call blocks its caller for ever: no thread is ever inside an
\* evaluate that does not return (a budget would end the run with
\* PolicyExecutionError).
C11_ExecuteTerminates == \A t \in Threads : ppc[t] # "blocked"

LastUnload == last_write.op = "unload"
ListAtRet(t) == ppc[t] = "ret" /\ pcall[t].op = "list"
Range(l) == {l[k] : k \in 1..Len(l)}

\* C12: unload_policy(id) returns true exactly when a module was registered under id
\* before the call (so a second unload_policy(id) returns false); until the next load
\* id is in no list_policies result and execute_policy(id, ctx) returns
\* PolicyNotFound; every list_policies result is the set of the ids loaded and not
\* unloaded since.
C12_UnloadRemoves ==
    /\ LastUnload =>
          /\ (last_write.result = "true") <=> (LastPre[last_write.id] # NoModule)
          /\ last_write.result \in {"true", "false"}
          /\ last_write.id \notin CacheKeys(policy_cache)
          /\ \A o \in PolicyIds \ {last_write.id} : policy_cache[o] = LastPre[o]
          /\ \A t \in Threads :
               /\ ListAtRet(t) => last_write.id \notin Range(pcall[t].list)
               /\ (ExecAtRet(t) /\ pcall[t].id = last_write.id) =>
                     pcall[t].result = "PolicyNotFound"
    /\ CacheKeys(policy_cache) = loaded_ids
    /\ \A t \in Threads : ListAtRet(t) =>
          /\ Range(pcall[t].list) = loaded_ids
          /\ Len(pcall[t].list) = Cardinality(loaded_ids)

\* C12 witness: a registered id was unloaded with true while another id stays
\* registered, and list_policies and execute_policy on the id have returned
C12_Witness ==
    \E t, u \in Threads :
        /\ LastUnload /\ last_write.result = "true"
        /\ loaded_ids # {}
        /\ ListAtRet(t)
        /\ ExecAtRet(u) /\ pcall[u].id = last_write.id

(***************************************************************************)
(* The secure channel engine: NoiseEncryptor.                              *)
(*                                                                         *)
(* The state of a session sits behind a Mutex that every method locks for  *)
(* its whole body, so each call is one step.  Two sessions are modelled:   *)
(* "a", whose ciphertexts travel to "b", and "b".  What travels can be     *)
(* delivered to decrypt in any order, more than once, and altered.         *)
(*                                                                         *)
(* The Noise library (snow) is modelled by what the Noise framework fixes: *)
(* a handshake is the message sequence of its pattern, each message        *)
(* written by one side and read by the other; a transport message is the   *)
(* plaintext enciphered under the key and a per-direction counter, with an *)
(* authentication tag over both.                                           *)
(***************************************************************************)
Sessions == {"a", "b"}
\* the number of bytes of the authentication tag a transport message carries
TagLen == 16
PlainBytes == {0, 255}
Plaintexts == SeqsUpTo(PlainBytes, MaxPlainLen)
\* the payloads a caller passes to perform_handshake
HandshakeMessages == {<<>>, <<0>>}

\* create_default_encryptor's pattern, an interactive two-message pattern and a
\* one-way pattern
DefaultPattern == "Noise_XX_25519_ChaChaPoly_BLAKE2s"
PatternNames == {DefaultPattern, "Noise_NN_25519_ChaChaPoly_BLAKE2s",
                 "Noise_N_25519_ChaChaPoly_BLAKE2s"}

\* the messages of a pattern as the initiator sees them (build_initiator): the ones
\* it writes and the ones it reads
MessagePattern(name) ==
    CASE name = DefaultPattern -> <<"write", "read", "write">>
      [] name = "Noise_NN_25519_ChaChaPoly_BLAKE2s" -> <<"write", "read">>
      [] OTHER -> <<"write">>

\* SessionState: Handshake(HandshakeState), Transport(TransportState) or Closed.
\* position is the number of handshake messages processed; send_nonce and
\* recv_nonce are the counters of the transport
NewSession == [tag |-> "Handshake", position |-> 0, send_nonce |-> 0, recv_nonce |-> 0]
TransportSession == [tag |-> "Transport", position |-> 0, send_nonce |-> 0, recv_nonce |-> 0]

\* the direction a session sends in and the one it receives in
SendDir(s) == IF s = "a" THEN "a_to_b" ELSE "b_to_a"
RecvDir(s) == IF s = "a" THEN "b_to_a" ELSE "a_to_b"

\* the cipher: each byte is shifted by a key stream that depends on the counter
Mask(x, n) == [i \in 1..Len(x) |-> (x[i] + n + 1) % 256]
\* faulty variant: the key stream of counter 0 whatever the counter is
Unmask_FirstNonce(d, n) == [i \in 1..Len(d) |-> (d[i] + 256 - 1) % 256]
Unmask(d, n) == [i \in 1..Len(d) |-> (d[i] + 256 - (n + 1)) % 256]

\* the tag: a value only the key holder computes, bound to the counter and the data
Mac(n, d) == [nonce |-> n, data |-> d]
\* a tag no key holder computed
ForgedMac == [nonce |-> -1, data |-> <<>>]
\* TransportState::write_message's output for plaintext x under counter n
Seal(dir, n, x) == [dir |-> dir, data |-> Mask(x, n), mac |-> Mac(n, Mask(x, n))]
\* the tag of c verifies under the receiving key and counter n
Verify(dir, n, c) == c.dir = dir /\ c.mac = Mac(n, c.data)
\* the length of a ciphertext in bytes
CtLen(c) == Len(c.data) + TagLen

\* what can be handed to decrypt: anything that travelled, as it was or with its
\* tag altered
Tamper(c) == [c EXCEPT !.mac = ForgedMac]
Deliverable == Range(wire) \cup {Tamper(c) : c \in Range(wire)}
\* the position in wire of c, 0 when c never travelled
IndexOf(c) == IF c \in Range(wire) THEN CHOOSE k \in 1..Len(wire) : wire[k] = c ELSE 0

NoCall ==
    [session |-> "", op |-> "new", pt |-> <<>>, ct |-> None, result |-> "Ok",
     out_pt |-> None, out_ct |-> None, out_len |-> -1, pre |-> None]

\* NoiseEncryptor::new for both sessions
SessionInitWith(pa, pb) ==
    /\ session = [s \in Sessions |-> NewSession]
    /\ pattern = [s \in Sessions |-> IF s = "a" THEN pa ELSE pb]
    /\ wire = <<>>
    /\ sent = <<>>
    /\ accepted = [s \in Sessions |-> <<>>]
    /\ scall = NoCall
\* the two sessions are peers: they are built for the same pattern
SessionInit == \E p \in PatternNames : SessionInitWith(p, p)
\* create_default_encryptor for both sessions
DefaultSessions == SessionInitWith(DefaultPattern, DefaultPattern)

\* faulty variant: every state is taken for Transport
InTransport_Always(st) == TRUE
\* the match arm SessionState::Transport(transport)
InTransport(st) == st.tag = "Transport"
\* faulty variant: every state is taken for Handshake
InHandshake_Always(st) == TRUE
\* the match arm SessionState::Handshake(handshake)
InHandshake(st) == st.tag = "Handshake"

\* HandshakeState::write_message succeeds only when the next message of the pattern
\* is one this side writes
MyTurnToWrite(s) ==
    /\ session[s].position < Len(MessagePattern(pattern[s]))
    /\ MessagePattern(pattern[s])[session[s].position + 1] = "write"
\* HandshakeState::is_handshake_finished after position messages
IsHandshakeFinished(s, position) == position = Len(MessagePattern(pattern[s]))

Frame(s, op) == [NoCall EXCEPT !.session = s, !.op = op, !.pre = Some(session)]

\* NoiseEncryptor::perform_handshake; lib_ok is whether the library accepts the
\* payload and the output buffer of message.len() + 16 bytes otherwise
PerformHandshake(s, message, lib_ok) ==
    /\ IF InHandshake(session[s])
       THEN IF MyTurnToWrite(s) /\ lib_ok
            THEN LET position == session[s].position + 1
                 IN  /\ session' = [session EXCEPT ![s] =
                            IF IsHandshakeFinished(s, position) THEN TransportSession
                            ELSE [session[s] EXCEPT !.position = position]]
                     \* the output is message number position of the pattern
                     /\ scall' = [Frame(s, "handshake") EXCEPT !.pt = message,
                                                                !.out_len = position]
            ELSE \* the ? on write_message
                 /\ scall' = [Frame(s, "handshake") EXCEPT !.pt = message,
                                                            !.result = "HandshakeError"]
                 /\ UNCHANGED session
       ELSE /\ scall' = [Frame(s, "handshake") EXCEPT !.pt = message,
                                                       !.result = "InvalidStateError"]
            /\ UNCHANGED session
    /\ UNCHANGED <<pattern, wire, sent, accepted>>
    /\ UNCHANGED notSessionVars

\* faulty variant: no room for the tag in the output buffer
ReserveLen_NoTag(x) == Len(x)
\* encrypt, line 46: vec![0u8; plaintext.len() + 16]
ReserveLen(x) == Len(x) + 16

\* TransportState::write_message into a buffer of buffer_len bytes: the number of
\* bytes written, or -1 when the buffer is too short
TransportWrite(x, buffer_len) ==
    IF buffer_len < Len(x) + TagLen THEN -1 ELSE Len(x) + TagLen

\* NoiseEncryptor::encrypt
Encrypt(s, x) ==
    /\ InTransport(session[s]) => session[s].send_nonce < MaxMessages
    /\ IF InTransport(session[s])
       THEN LET n == TransportWrite(x, ReserveLen(x))
                c == Seal(SendDir(s), session[s].send_nonce, x)
            IN  IF n < 0
                THEN \* the ? on write_message
                     /\ scall' = [Frame(s, "encrypt") EXCEPT !.pt = x,
                                                             !.result = "EncryptError"]
                     /\ UNCHANGED <<session, wire, sent>>
                ELSE /\ session' = [session EXCEPT ![s].send_nonce = @ + 1]
                     /\ scall' = [Frame(s, "encrypt") EXCEPT !.pt = x, !.out_ct = Some(c),
                                                             !.out_len = n]
                     /\ IF s = "a"
                        THEN wire' = Append(wire, c) /\ sent' = Append(sent, x)
                        ELSE UNCHANGED <<wire, sent>>
       ELSE /\ scall' = [Frame(s, "encrypt") EXCEPT !.pt = x, !.result = "InvalidStateError"]
            /\ UNCHANGED <<session, wire, sent>>
    /\ UNCHANGED <<pattern, accepted>>
    /\ UNCHANGED notSessionVars

\* faulty variant: the tag is checked under any counter, the counter is not
TransportRead_AnyNonce(s, c) == \E n \in 0..MaxMessages : Verify(RecvDir(s), n, c)
\* TransportState::read_message: the tag is checked under the receiving counter
TransportRead(s, c) == Verify(RecvDir(s), session[s].recv_nonce, c)

\* NoiseEncryptor::decrypt
Decrypt(s, c) ==
    /\ IF InTransport(session[s])
       THEN IF TransportRead(s, c)
            THEN /\ session' = [session EXCEPT ![s].recv_nonce = @ + 1]
                 /\ accepted' = [accepted EXCEPT ![s] = Append(@, IndexOf(c))]
                 /\ scall' = [Frame(s, "decrypt") EXCEPT !.ct = Some(c),
                                  !.out_pt = Some(Unmask(c.data, session[s].recv_nonce)),
                                  !.out_len = Len(c.data)]
            ELSE \* the ? on read_message
                 /\ scall' = [Frame(s, "decrypt") EXCEPT !.ct = Some(c),
                                                         !.result = "AuthenticationError"]
                 /\ UNCHANGED <<session, accepted>>
       ELSE /\ scall' = [Frame(s, "decrypt") EXCEPT !.ct = Some(c),
                                                     !.result = "InvalidStateError"]
            /\ UNCHANGED <<session, accepted>>
    /\ UNCHANGED <<pattern, wire, sent>>
    /\ UNCHANGED notSessionVars

SessionNext ==
    \E s \in Sessions :
        \/ \E message \in HandshakeMessages, lib_ok \in BOOLEAN : PerformHandshake(s, message, lib_ok)
        \/ \E x \in Plaintexts : Encrypt(s, x)
        \/ \E c \in Deliverable : Decrypt(s, c)

(***************************************************************************)
(* Properties of the secure channel engine.                                *)
(***************************************************************************)
\* the sessions as they were when the last call began, and the session it was on
SessionsBefore == CHOOSE f \in scall.pre : TRUE
Before == SessionsBefore[scall.session]
After == session[scall.session]
Called(op) == scall.op = op
NoOutput == scall.out_pt = None /\ scall.out_ct = None /\ scall.out_len = -1
CryptoFailures == {"HandshakeError", "EncryptError", "AuthenticationError"}
\* what the session had accepted when the last call began
AcceptedBefore ==
    IF Called("decrypt") /\ scall.result = "Ok"
    THEN SubSeq(accepted[scall.session], 1, Len(accepted[scall.session]) - 1)
    ELSE accepted[scall.session]
TheCiphertext == CHOOSE c \in scall.ct : TRUE

\* C13: a call that fails in the cryptography (a handshake step, an encrypt or a
\* decrypt) leaves the session Closed, and a call on a Closed session fails and
\* leaves it Closed.
C13_FailureCloses ==
    /\ scall.result \in CryptoFailures => After.tag = "Closed"
    /\ (scall.op # "new" /\ Before.tag = "Closed") =>
          scall.result # "Ok" /\ After.tag = "Closed"

\* C14: a new session is in Handshake, and encrypt and decrypt on a session in
\* Handshake or Closed return InvalidStateError, no ciphertext and no plaintext, and
\* leave every session as it was.
C14_WrongStateIsError ==
    /\ Called("new") => \A s \in Sessions : session[s] = NewSession
    /\ ((Called("encrypt") \/ Called("decrypt")) /\ Before.tag \in {"Handshake", "Closed"}) =>
          /\ scall.result = "InvalidStateError"
          /\ NoOutput
          /\ session = SessionsBefore
          /\ Len(wire) = SessionsBefore["a"].send_nonce

\* C14 witness: decrypt of a ciphertext that travelled, on a session still in
\* Handshake, has returned
C14_Witness ==
    /\ Called("decrypt") /\ Before.tag = "Handshake"
    /\ TheCiphertext \in Range(wire)

\* C15: perform_handshake returns Ok only on a session in Handshake; on a session in
\* Transport or Closed it returns an error and leaves every session as it was.
C15_HandshakeOnlyInHandshake ==
    Called("handshake") =>
        /\ scall.result = "Ok" => Before.tag = "Handshake"
        /\ Before.tag \in {"Transport", "Closed"} =>
              /\ scall.result = "InvalidStateError"
              /\ NoOutput
              /\ session = SessionsBefore

\* C15 witness: perform_handshake on a session that has sent in Transport
C15_Witness ==
    /\ Called("handshake") /\ Before.tag = "Transport" /\ Before.send_nonce > 0

\* C16: a session in Handshake can be taken one step further by a perform_handshake
\* call, so that perform_handshake calls alone drive it through its pattern to
\* Transport.
C16_HandshakeCanBeDriven ==
    \A s \in Sessions : session[s].tag = "Handshake" => MyTurnToWrite(s)

StrictlyIncreasing(l) == \A i, j \in 1..Len(l) : i < j => l[i] < l[j]

\* C17: what a session accepted are ciphertexts that travelled, at strictly
\* increasing positions; decrypt returns plaintext only when the tag verifies under
\* the receiving counter, and a ciphertext with an altered tag, one accepted before
\* or one that travelled before an accepted one gets AuthenticationError, no
\* plaintext, and leaves the session as it was.
C17_NoReplayNoForgery ==
    /\ \A s \in Sessions :
          /\ StrictlyIncreasing(accepted[s])
          /\ \A k \in Range(accepted[s]) : k >= 1
    /\ (Called("decrypt") /\ scall.result = "Ok") =>
          /\ Before.tag = "Transport"
          /\ Verify(RecvDir(scall.session), Before.recv_nonce, TheCiphertext)
          /\ After.recv_nonce = Before.recv_nonce + 1
    /\ (Called("decrypt") /\ Before.tag = "Transport"
          /\ (\/ TheCiphertext.mac = ForgedMac
              \/ \E k \in Range(AcceptedBefore) : IndexOf(TheCiphertext) <= k)) =>
          /\ scall.result = "AuthenticationError"
          /\ NoOutput
          /\ session = SessionsBefore

\* C17 witness: a ciphertext the session had accepted was delivered again and rejected
C17_Witness ==
    /\ Called("decrypt") /\ scall.result = "AuthenticationError"
    /\ IndexOf(TheCiphertext) \in Range(accepted[scall.session])

C19_CiphertextLength ==
    (Called("encrypt") /\ Before.tag = "Transport") =>
        /\ scall.result = "Ok"
        /\ scall.out_len = Len(scall.pt) + 16
        /\ \A c \in scall.out_ct : CtLen(c) = Len(scall.pt) + 16
        /\ scall.out_ct # None

\* C19 witness: the empty plaintext was encrypted
C19_Witness == Called("encrypt") /\ scall.result = "Ok" /\ scall.pt = <<>>

(***************************************************************************)
(* The shared state store: MapManager's connection table.                  *)
(*                                                                         *)
(* Every method takes &self and is one call on the kernel map (insert,     *)
(* get, remove), which takes effect at one instant between the moment the  *)
(* caller makes the call and the moment it has the result.                 *)
(***************************************************************************)
Callers == 1..NumCallers
ConnIds == {"c1", "c2"}
\* two ConnectionInfo values that differ in every field but created_at
ConnInfos ==
    {[state |-> "New", created_at |-> 1, last_seen |-> 1, spiffe_id |-> None,
      policy_id |-> None],
     [state |-> "Established", created_at |-> 1, last_seen |-> 2,
      spiffe_id |-> Some("spiffe://example.org/a"), policy_id |-> Some("p1")]}

\* the ids and values of the policy table
PolicyKeys == {"p1", "p2"}
PolicyValues == {0, 1}

\* faulty variant: insert with BPF_NOEXIST, taken for a success when the key exists
ConnInsert_NoExist(m, k, v) == IF m[k] = None THEN [m EXCEPT ![k] = Some(v)] ELSE m
\* HashMap::insert(key, value, 0): flags 0 is BPF_ANY, create or replace
ConnInsert(m, k, v) == [m EXCEPT ![k] = Some(v)]
\* HashMap::get(key, 0)
ConnGet(m, k) == m[k]
\* faulty variant: the whole table is cleared
ConnRemove_Clear(m, k) == [c \in DOMAIN m |-> None]
\* HashMap::remove(key)
ConnRemove(m, k) == [m EXCEPT ![k] = None]

\* began is the entry under the key when a remove_connection was called and removed
\* the entry it removed; pvalue and pout are the argument and the result of the
\* calls on the policy table
IdleStoreCall ==
    [op |-> "none", key |-> "", value |-> None, result |-> "none", out |-> None,
     last |-> None, began |-> None, removed |-> None, pvalue |-> None, pout |-> None]

\* MapManager::new over a fresh map
StoreInit ==
    /\ connection_map = [c \in ConnIds |-> None]
    /\ policy_map = [k \in PolicyKeys |-> None]
    /\ last_upsert = [c \in ConnIds |-> None]
    /\ mpc = [t \in Callers |-> "idle"]
    /\ mcall = [t \in Callers |-> IdleStoreCall]

\* a caller calls update_connection, get_connection or remove_connection
StoreCall(t, op, key, value) ==
    /\ mpc[t] = "idle"
    /\ op = "update" <=> value # None
    /\ mpc' = [mpc EXCEPT ![t] = "called"]
    /\ mcall' = [mcall EXCEPT ![t] =
                    [IdleStoreCall EXCEPT !.op = op, !.key = key, !.value = value,
                         !.began = IF op = "remove" THEN connection_map[key] ELSE None]]
    /\ UNCHANGED <<connection_map, policy_map, last_upsert>>
    /\ UNCHANGED notStoreVars

\* MapManager::update_connection takes effect; sys_ok is whether the kernel accepts
\* the update
UpdateConnection(t, sys_ok) ==
    /\ mpc[t] = "called" /\ mcall[t].op = "update"
    /\ IF sys_ok
       THEN /\ connection_map' = ConnInsert(connection_map, mcall[t].key,
                                            CHOOSE v \in mcall[t].value : TRUE)
            /\ last_upsert' = [last_upsert EXCEPT ![mcall[t].key] = mcall[t].value]
            /\ mcall' = [mcall EXCEPT ![t].result = "Ok"]
            /\ UNCHANGED policy_map
       ELSE /\ mcall' = [mcall EXCEPT ![t].result = "MapError"]
            /\ UNCHANGED <<connection_map, policy_map, last_upsert>>
    /\ mpc' = [mpc EXCEPT ![t] = "ret"]
    /\ UNCHANGED notStoreVars

\* MapManager::get_connection takes effect
GetConnection(t, sys_ok) ==
    /\ mpc[t] = "called" /\ mcall[t].op = "get"
    /\ mcall' = [mcall EXCEPT ![t] =
                    IF sys_ok
                    THEN [@ EXCEPT !.result = "Ok",
                                   !.out = ConnGet(connection_map, mcall[t].key),
                                   !.last = last_upsert[mcall[t].key]]
                    ELSE [@ EXCEPT !.result = "MapError"]]
    /\ mpc' = [mpc EXCEPT ![t] = "ret"]
    /\ UNCHANGED <<connection_map, policy_map, last_upsert>>
    /\ UNCHANGED notStoreVars

\* MapManager::remove_connection takes effect: a key that is not in the map is an
\* error of the kernel
RemoveConnection(t, sys_ok) ==
    /\ mpc[t] = "called" /\ mcall[t].op = "remove"
    /\ IF sys_ok /\ connection_map[mcall[t].key] # None
       THEN /\ connection_map' = ConnRemove(connection_map, mcall[t].key)
            /\ last_upsert' = [last_upsert EXCEPT ![mcall[t].key] = None]
            /\ mcall' = [mcall EXCEPT ![t].result = "Ok",
                                      ![t].removed = connection_map[mcall[t].key]]
            /\ UNCHANGED policy_map
       ELSE /\ mcall' = [mcall EXCEPT ![t].result = "MapError"]
            /\ UNCHANGED <<connection_map, policy_map, last_upsert>>
    /\ mpc' = [mpc EXCEPT ![t] = "ret"]
    /\ UNCHANGED notStoreVars

\* a caller calls update_policy or get_policy
PolicyTableCall(t, op, key, value) ==
    /\ mpc[t] = "idle"
    /\ op = "update_policy" <=> value # None
    /\ mpc' = [mpc EXCEPT ![t] = "called"]
    /\ mcall' = [mcall EXCEPT ![t] = [IdleStoreCall EXCEPT !.op = op, !.key = key,
                                                           !.pvalue = value]]
    /\ UNCHANGED <<connection_map, policy_map, last_upsert>>
    /\ UNCHANGED notStoreVars

\* faulty variant: the value is written although the call returns an error
UpdatePolicy_WritesOnError(t, sys_ok) ==
    /\ mpc[t] = "called" /\ mcall[t].op = "update_policy"
    /\ policy_map' = [policy_map EXCEPT ![mcall[t].key] = mcall[t].pvalue]
    /\ mcall' = [mcall EXCEPT ![t].result = IF sys_ok THEN "Ok" ELSE "MapError"]
    /\ mpc' = [mpc EXCEPT ![t] = "ret"]
    /\ UNCHANGED <<connection_map, last_upsert>>
    /\ UNCHANGED notStoreVars

\* MapManager::update_policy takes effect: insert(policy_id, value, 0)
UpdatePolicy(t, sys_ok) ==
    /\ mpc[t] = "called" /\ mcall[t].op = "update_policy"
    /\ IF sys_ok
       THEN /\ policy_map' = [policy_map EXCEPT ![mcall[t].key] = mcall[t].pvalue]
            /\ mcall' = [mcall EXCEPT ![t].result = "Ok"]
       ELSE /\ mcall' = [mcall EXCEPT ![t].result = "MapError"]
            /\ UNCHANGED policy_map
    /\ mpc' = [mpc EXCEPT ![t] = "ret"]
    /\ UNCHANGED <<connection_map, last_upsert>>
    /\ UNCHANGED notStoreVars

\* MapManager::get_policy takes effect
GetPolicy(t, sys_ok) ==
    /\ mpc[t] = "called" /\ mcall[t].op = "get_policy"
    /\ mcall' = [mcall EXCEPT ![t] =
                    IF sys_ok
                    THEN [@ EXCEPT !.result = "Ok", !.pout = policy_map[mcall[t].key]]
                    ELSE [@ EXCEPT !.result = "MapError"]]
    /\ mpc' = [mpc EXCEPT ![t] = "ret"]
    /\ UNCHANGED <<connection_map, policy_map, last_upsert>>
    /\ UNCHANGED notStoreVars

\* the caller has its result
StoreReturn(t) ==
    /\ mpc[t] = "ret"
    /\ mpc' = [mpc EXCEPT ![t] = "idle"]
    /\ mcall' = [mcall EXCEPT ![t] = IdleStoreCall]
    /\ UNCHANGED <<connection_map, policy_map, last_upsert>>
    /\ UNCHANGED notStoreVars

StoreNext ==
    \E t \in Callers :
        \/ \E key \in ConnIds, v \in ConnInfos : StoreCall(t, "update", key, Some(v))
        \/ \E key \in ConnIds, op \in {"get", "remove"} : StoreCall(t, op, key, None)
        \/ \E sys_ok \in BOOLEAN : UpdateConnection(t, sys_ok)
        \/ \E sys_ok \in BOOLEAN : GetConnection(t, sys_ok)
        \/ \E sys_ok \in BOOLEAN : RemoveConnection(t, sys_ok)
        \/ StoreReturn(t)

\* the calls of one caller on both tables
TablesNext ==
    \E t \in Callers :
        /\ \A u \in Callers : t <= u
        /\ \/ \E key \in ConnIds, v \in ConnInfos : StoreCall(t, "update", key, Some(v))
           \/ \E key \in ConnIds, op \in {"get", "remove"} : StoreCall(t, op, key, None)
           \/ \E key \in PolicyKeys, x \in PolicyValues :
                 PolicyTableCall(t, "update_policy", key, Some(x))
           \/ \E key \in PolicyKeys : PolicyTableCall(t, "get_policy", key, None)
           \/ \E sys_ok \in BOOLEAN : UpdateConnection(t, sys_ok)
           \/ \E sys_ok \in BOOLEAN : GetConnection(t, sys_ok)
           \/ \E sys_ok \in BOOLEAN : RemoveConnection(t, sys_ok)
           \/ \E sys_ok \in BOOLEAN : UpdatePolicy(t, sys_ok)
           \/ \E sys_ok \in BOOLEAN : GetPolicy(t, sys_ok)
           \/ StoreReturn(t)

(***************************************************************************)
(* Properties of the shared state store.                                   *)
(***************************************************************************)
GetAtRet(t) == mpc[t] = "ret" /\ mcall[t].op = "get" /\ mcall[t].result = "Ok"

\* C20: the connection table holds under every key the value of the last
\* update_connection of the key that took effect (nothing when none did or the key
\* was removed since), and get_connection returns that value as it was passed, also
\* when update_connection calls on the key by other callers are in progress.
C20_LastWriteWins ==
    /\ \A c \in ConnIds : connection_map[c] = last_upsert[c]
    /\ \A t \in Callers : GetAtRet(t) =>
          /\ mcall[t].out = mcall[t].last
          /\ mcall[t].out \subseteq ConnInfos

\* C20 witness: get_connection returned the value written under a key while an
\* update_connection of another value on the key is in progress
C20_Witness ==
    \E t, u \in Callers :
        /\ GetAtRet(t) /\ mcall[t].out # None
        /\ mpc[u] = "called" /\ mcall[u].op = "update" /\ mcall[u].key = mcall[t].key
        /\ mcall[u].value # mcall[t].out
        /\ connection_map[mcall[t].key] = mcall[t].out

\* C21: an entry is removed for idleness only if it was not upserted since the
\* removal began: a remove_connection that returns Ok removed the entry that was
\* under the key when it was called, so a value upserted meanwhile stays.
C21_RemoveOnlyUntouched ==
    \A t \in Callers :
        (mpc[t] = "ret" /\ mcall[t].op = "remove" /\ mcall[t].result = "Ok") =>
            mcall[t].removed = mcall[t].began

\* the step in which the call of t takes effect
TakesEffect(t) == mpc[t] = "called" /\ mpc'[t] = "ret"
IsWrite(op) == op \in {"update", "remove", "update_policy"}

\* C22: a write (update_connection, remove_connection, update_policy) that returns an
\* error leaves both tables as they were.
C22_FailedWriteChangesNothing ==
    [][\A t \in Callers :
         (TakesEffect(t) /\ IsWrite(mcall[t].op) /\ mcall'[t].result = "MapError") =>
             /\ connection_map' = connection_map
             /\ policy_map' = policy_map]_vars

\* C22 witness: an update_connection of a key that holds another value failed, with
\* an entry in the policy table
C22_Witness ==
    \E t \in Callers :
        /\ mpc[t] = "ret" /\ mcall[t].op = "update" /\ mcall[t].result = "MapError"
        /\ connection_map[mcall[t].key] \notin {None, mcall[t].value}
        /\ \E k \in PolicyKeys : policy_map[k] # None

\* C23: update_connection and remove_connection change nothing but the entry of
\* their key, update_policy nothing but the entry of its id, the gets nothing; a
\* successful remove_connection leaves no entry under the key, and get_connection
\* of a key removed and not updated since returns none.
C23_OnlyTheNamedKey ==
    [][\A t \in Callers : TakesEffect(t) =>
         LET op == mcall[t].op
             key == mcall[t].key
         IN  /\ op \in {"update", "remove"} =>
                   /\ \A c \in ConnIds \ {key} : connection_map'[c] = connection_map[c]
                   /\ policy_map' = policy_map
             /\ (op = "remove" /\ mcall'[t].result = "Ok") => connection_map'[key] = None
             /\ op = "update_policy" =>
                   /\ \A k \in PolicyKeys \ {key} : policy_map'[k] = policy_map[k]
                   /\ connection_map' = connection_map
             /\ op \in {"get", "get_policy"} =>
                   /\ connection_map' = connection_map
                   /\ policy_map' = policy_map
             /\ (op = "get" /\ last_upsert[key] = None /\ mcall'[t].result = "Ok") =>
                   mcall'[t].out = None]_vars

\* C23 witness: an entry was removed while another connection and a policy entry are
\* in the tables
C23_Witness ==
    \E t \in Callers :
        /\ mpc[t] = "ret" /\ mcall[t].op = "remove" /\ mcall[t].result = "Ok"
        /\ \E c \in ConnIds \ {mcall[t].key} : connection_map[c] # None
        /\ \E k \in PolicyKeys : policy_map[k] # None

(***************************************************************************)
(* The policy model: PortRange.                                            *)
(***************************************************************************)
\* the u16 values the callers pass
U16Sample == {0, 1, 80, 443, 8080, 65535}
\* every u16
AllPorts == 0..65535

\* faulty variant: the upper bound is excluded
Contains_ExclusiveTo(r, port) == port >= r.from /\ port < r.to
\* PortRange::contains
Contains(r, port) == port >= r.from /\ port <= r.to

NoRangeCall == [op |-> "none", from |-> 0, to |-> 0, port |-> 0, ok |-> TRUE, contains |-> FALSE]

PortRangeInit ==
    /\ range = None
    /\ rcall = NoRangeCall

\* PortRange::new
PortRangeNew(from, to) ==
    /\ range' = IF from > to THEN None ELSE Some([from |-> from, to |-> to])
    /\ rcall' = [NoRangeCall EXCEPT !.op = "new", !.from = from, !.to = to, !.ok = ~(from > to)]
    /\ UNCHANGED <<networkPolicyVars, policySetVars>>
    /\ UNCHANGED notModelVars

\* PortRange::single
PortRangeSingle(port) ==
    /\ range' = Some([from |-> port, to |-> port])
    /\ rcall' = [NoRangeCall EXCEPT !.op = "single", !.port = port]
    /\ UNCHANGED <<networkPolicyVars, policySetVars>>
    /\ UNCHANGED notModelVars

\* PortRange::all
PortRangeAll ==
    /\ range' = Some([from |-> 0, to |-> 65535])
    /\ rcall' = [NoRangeCall EXCEPT !.op = "all"]
    /\ UNCHANGED <<networkPolicyVars, policySetVars>>
    /\ UNCHANGED notModelVars

\* PortRange::contains on the range the last constructor returned
PortRangeContains(port) ==
    /\ range # None
    /\ rcall' = [NoRangeCall EXCEPT !.op = "contains", !.port = port,
                     !.contains = Contains(CHOOSE r \in range : TRUE, port)]
    /\ UNCHANGED range
    /\ UNCHANGED <<networkPolicyVars, policySetVars>>
    /\ UNCHANGED notModelVars

PortRangeNext ==
    \/ \E from, to \in U16Sample : PortRangeNew(from, to)
    \/ \E port \in U16Sample : PortRangeSingle(port)
    \/ PortRangeAll
    \/ \E port \in U16Sample : PortRangeContains(port)

TheRange == CHOOSE r \in range : TRUE

\* C30: contains(p) is true exactly when from <= p <= to; all() contains every u16;
\* single(q) contains q and no other u16; new(from, to) is an error exactly when
\* from > to, and otherwise the range from..to.
C30_PortRange ==
    /\ rcall.op = "contains" =>
          (rcall.contains <=> (TheRange.from <= rcall.port /\ rcall.port <= TheRange.to))
    /\ rcall.op = "all" => range # None /\ \A p \in AllPorts : Contains(TheRange, p)
    /\ rcall.op = "single" =>
          range # None /\ \A p \in AllPorts : Contains(TheRange, p) <=> (p = rcall.port)
    /\ rcall.op = "new" =>
          /\ ~rcall.ok <=> (rcall.from > rcall.to)
          /\ ~rcall.ok <=> (range = None)
          /\ rcall.ok => TheRange = [from |-> rcall.from, to |-> rcall.to]

\* C30 witness: contains returned true for the upper bound of a range of several ports
C30_Witness ==
    /\ rcall.op = "contains" /\ rcall.contains
    /\ TheRange.from < TheRange.to /\ rcall.port = TheRange.to

(***************************************************************************)
(* The policy model: NetworkPolicy.                                        *)
(*                                                                         *)
(* A policy is the record of the fields matches reads, with its id, action *)
(* and priority; name, description and labels are left out.                *)
(***************************************************************************)
Protocols == {"TCP", "UDP", "ICMP", "All"}
\* the protocols of a connection
ConnProtocols == {"TCP", "UDP", "ICMP"}
\* two SpiffeId values that differ in the path
IdA == [trust_domain |-> "example.org", path |-> "/a"]
IdB == [trust_domain |-> "example.org", path |-> "/b"]
\* the identity a policy is given and the ones a connection supplies
PolicyIdentities == {IdA}
ConnIdentities == {None, Some(IdA), Some(IdB)}
PolicyIps == {"10.0.0.1"}
ConnIps == {"10.0.0.1", "10.0.0.2"}
\* PortRange::all(), single(80), new(0, 80) and new(80, 65535)
PolicyRanges ==
    {[from |-> 0, to |-> 65535], [from |-> 80, to |-> 80], [from |-> 0, to |-> 80],
     [from |-> 80, to |-> 65535]}
ConnPorts == {0, 80, 65535}
DefaultConn ==
    [source_id |-> None, destination_id |-> None, source_ip |-> "10.0.0.1",
     destination_ip |-> "10.0.0.2", protocol |-> "TCP", source_port |-> 0,
     destination_port |-> 80]
\* connections of every protocol that differ in the identities, in the ports
\* or in the addresses
IdentityConns ==
    {[DefaultConn EXCEPT !.source_id = s, !.destination_id = d, !.protocol = pr] :
        s \in ConnIdentities, d \in ConnIdentities, pr \in ConnProtocols}
PortConns ==
    {[DefaultConn EXCEPT !.source_port = s, !.destination_port = d, !.protocol = pr] :
        s \in ConnPorts, d \in ConnPorts, pr \in ConnProtocols}
IpConns ==
    {[DefaultConn EXCEPT !.source_ip = s, !.destination_ip = d] :
        s \in ConnIps, d \in ConnIps}
Conns == IdentityConns \cup PortConns \cup IpConns

\* NetworkPolicy::new
NewPolicy(id, protocol, action, priority) ==
    [id |-> id, protocol |-> protocol, action |-> action, priority |-> priority,
     source |-> None, destination |-> None, source_ip |-> None, destination_ip |-> None,
     source_ports |-> <<>>, destination_ports |-> <<>>, enabled |-> TRUE]

\* faulty variant: the protocol is not looked at
ProtocolMatches_Any(p, protocol) == TRUE
\* matches, lines 272-274
ProtocolMatches(p, protocol) == ~(p.protocol # "All" /\ p.protocol # protocol)

\* faulty variant: a connection without an identity passes
IdentityMatches_AbsentPasses(policy_id, conn_id) ==
    policy_id = None \/ conn_id = None \/ policy_id = conn_id
\* matches, lines 277-285 and 288-296
IdentityMatches(policy_id, conn_id) ==
    IF policy_id # None
    THEN IF conn_id # None THEN ~(policy_id # conn_id) ELSE FALSE
    ELSE TRUE

\* matches, lines 299-303 and 306-310
IpMatches(policy_ip, ip) == IF policy_ip # None THEN ~(policy_ip # Some(ip)) ELSE TRUE

\* faulty variant: an empty list matches no port
PortsMatch_NoWildcard(ranges, port) ==
    \E k \in 1..Len(ranges) : Contains(ranges[k], port)
\* matches, lines 313-324 and 327-338
PortsMatch(ranges, port) ==
    IF Len(ranges) # 0
    THEN \E k \in 1..Len(ranges) : Contains(ranges[k], port)
    ELSE TRUE

\* faulty variant: the enabled flag is not looked at
Matches_IgnoresEnabled(p, c) ==
    /\ ProtocolMatches(p, c.protocol)
    /\ IdentityMatches(p.source, c.source_id)
    /\ IdentityMatches(p.destination, c.destination_id)
    /\ IpMatches(p.source_ip, c.source_ip)
    /\ IpMatches(p.destination_ip, c.destination_ip)
    /\ PortsMatch(p.source_ports, c.source_port)
    /\ PortsMatch(p.destination_ports, c.destination_port)

\* NetworkPolicy::matches
Matches(p, c) ==
    IF ~p.enabled THEN FALSE
    ELSE /\ ProtocolMatches(p, c.protocol)
         /\ IdentityMatches(p.source, c.source_id)
         /\ IdentityMatches(p.destination, c.destination_id)
         /\ IpMatches(p.source_ip, c.source_ip)
         /\ IpMatches(p.destination_ip, c.destination_ip)
         /\ PortsMatch(p.source_ports, c.source_port)
         /\ PortsMatch(p.destination_ports, c.destination_port)

\* the number of constraints a policy carries
ConstraintCount(p) ==
    Cardinality(p.source) + Cardinality(p.destination) + Cardinality(p.source_ip)
    + Cardinality(p.destination_ip) + Len(p.source_ports) + Len(p.destination_ports)

NoPolicyCall == [op |-> "new", matched |-> FALSE]

\* a policy from NetworkPolicy::new and the connection the owner will ask about
NetworkPolicyInitWith(c) ==
    /\ policy = NewPolicy("a", "All", "Allow", 10)
    /\ conn = c
    /\ ncall = NoPolicyCall
    /\ before_disable = None
NetworkPolicyInit == NetworkPolicyInitWith(DefaultConn)

\* NetworkPolicy::new
PolicyNew(protocol) ==
    /\ policy' = NewPolicy("a", protocol, "Allow", 10)
    /\ ncall' = NoPolicyCall
    /\ before_disable' = None
    /\ UNCHANGED conn
    /\ UNCHANGED <<portRangeVars, policySetVars>>
    /\ UNCHANGED notModelVars

\* the builder and mutator calls: next is the policy after the call
Build(next) ==
    /\ ConstraintCount(next) <= MaxConstraints
    /\ policy' = next
    /\ ncall' = [op |-> "build", matched |-> FALSE]
    /\ before_disable' = None
    /\ UNCHANGED conn
    /\ UNCHANGED <<portRangeVars, policySetVars>>
    /\ UNCHANGED notModelVars

\* NetworkPolicy::with_source
WithSource(id) == Build([policy EXCEPT !.source = Some(id)])
\* NetworkPolicy::with_destination
WithDestination(id) == Build([policy EXCEPT !.destination = Some(id)])
\* NetworkPolicy::with_source_ip
WithSourceIp(ip) == Build([policy EXCEPT !.source_ip = Some(ip)])
\* NetworkPolicy::with_destination_ip
WithDestinationIp(ip) == Build([policy EXCEPT !.destination_ip = Some(ip)])
\* NetworkPolicy::add_source_port_range
AddSourcePortRange(r) == Build([policy EXCEPT !.source_ports = Append(@, r)])
\* NetworkPolicy::add_destination_port_range
AddDestinationPortRange(r) == Build([policy EXCEPT !.destination_ports = Append(@, r)])

\* NetworkPolicy::enable
Enable ==
    /\ policy' = [policy EXCEPT !.enabled = TRUE]
    /\ ncall' = [op |-> "enable", matched |-> FALSE]
    /\ UNCHANGED <<conn, before_disable>>
    /\ UNCHANGED <<portRangeVars, policySetVars>>
    /\ UNCHANGED notModelVars

\* NetworkPolicy::disable
Disable ==
    /\ policy' = [policy EXCEPT !.enabled = FALSE]
    /\ ncall' = [op |-> "disable", matched |-> FALSE]
    /\ before_disable' = IF policy.enabled THEN Some(policy) ELSE before_disable
    /\ UNCHANGED conn
    /\ UNCHANGED <<portRangeVars, policySetVars>>
    /\ UNCHANGED notModelVars

\* NetworkPolicy::matches on the connection
MatchesCall ==
    /\ ncall' = [op |-> "matches", matched |-> Matches(policy, conn)]
    /\ UNCHANGED <<policy, conn, before_disable>>
    /\ UNCHANGED <<portRangeVars, policySetVars>>
    /\ UNCHANGED notModelVars

NetworkPolicyNext ==
    \/ \E protocol \in Protocols : PolicyNew(protocol)
    \/ \E id \in PolicyIdentities : WithSource(id)
    \/ \E id \in PolicyIdentities : WithDestination(id)
    \/ \E ip \in PolicyIps : WithSourceIp(ip)
    \/ \E ip \in PolicyIps : WithDestinationIp(ip)
    \/ \E r \in PolicyRanges : AddSourcePortRange(r)
    \/ \E r \in PolicyRanges : AddDestinationPortRange(r)
    \/ Enable
    \/ Disable
    \/ MatchesCall

(***************************************************************************)
(* Claims about NetworkPolicy.                                             *)
(***************************************************************************)
\* the policy as it was when disable() was called on it while enabled
PolicyBefore == CHOOSE p \in before_disable : TRUE

\* C26: a disabled policy matches no connection: matches returns false on a
\* disabled policy, after disable() the policy matches none of the
\* connections, and after enable() it matches exactly the connections it
\* matched before it was disabled.
C26_DisabledMatchesNothing ==
    /\ (ncall.op = "matches" /\ ~policy.enabled) => ~ncall.matched
    /\ ncall.op = "disable" => \A c \in Conns : ~Matches(policy, c)
    /\ (ncall.op = "enable" /\ before_disable # None) =>
           \A c \in Conns : Matches(policy, c) = Matches(PolicyBefore, c)
    /\ (ncall.op = "matches" /\ policy.enabled /\ before_disable # None) =>
           ncall.matched = Matches(PolicyBefore, conn)

\* a disabled policy was asked about a connection it matched while enabled
C26_Witness ==
    /\ ncall.op = "matches"
    /\ ~policy.enabled
    /\ before_disable # None
    /\ Matches(PolicyBefore, conn)
    /\ ~ncall.matched

\* the protocol of policy p admits connection c
ProtocolAccepts(p, c) == p.protocol = "All" \/ p.protocol = c.protocol
Unconstrained(p) == ConstraintCount(p) = 0

\* C27: an enabled policy with no other constraint matches a connection
\* exactly when its protocol is All or equals the connection's protocol, and
\* a TCP policy never matches a UDP or ICMP connection.
C27_ProtocolMatch ==
    ncall.op = "matches" =>
        /\ (policy.enabled /\ Unconstrained(policy)) =>
               (ncall.matched <=> ProtocolAccepts(policy, conn))
        /\ (policy.protocol = "TCP" /\ conn.protocol \in {"UDP", "ICMP"}) =>
               ~ncall.matched

\* an enabled TCP policy without constraints was asked about a UDP connection
C27_Witness ==
    /\ ncall.op = "matches"
    /\ policy.enabled
    /\ Unconstrained(policy)
    /\ policy.protocol = "TCP"
    /\ conn.protocol = "UDP"
    /\ ~ncall.matched

\* an identity of the policy admits the identity the connection supplies
IdentityAccepts(policy_id, conn_id) == policy_id = None \/ policy_id = conn_id

\* C28: the source and the destination identity are matched independently:
\* a specified identity admits only the equal supplied identity and not an
\* absent one, an unspecified identity admits everything; a policy that
\* matches admits both identities, and a policy whose other checks pass
\* matches exactly when both identities are admitted.
C28_IdentityMatch ==
    ncall.op = "matches" =>
        /\ ncall.matched =>
               /\ IdentityAccepts(policy.source, conn.source_id)
               /\ IdentityAccepts(policy.destination, conn.destination_id)
        /\ (/\ policy.enabled
            /\ ProtocolAccepts(policy, conn)
            /\ policy.source_ip = None /\ policy.destination_ip = None
            /\ policy.source_ports = <<>> /\ policy.destination_ports = <<>>) =>
               (ncall.matched <=>
                    /\ IdentityAccepts(policy.source, conn.source_id)
                    /\ IdentityAccepts(policy.destination, conn.destination_id))

\* a policy with a source identity was asked about a connection that supplies
\* no source identity, and a destination identity the policy does not name
C28_Witness ==
    /\ ncall.op = "matches"
    /\ policy.enabled
    /\ ProtocolAccepts(policy, conn)
    /\ policy.source # None
    /\ policy.destination = None
    /\ conn.source_id = None
    /\ conn.destination_id # None
    /\ ~ncall.matched

\* a list of port ranges admits a port
PortAccepts(ranges, port) ==
    ranges = <<>> \/ \E k \in DOMAIN ranges : ranges[k].from <= port /\ port <= ranges[k].to

Actions == {"Allow", "Deny"}
Priorities == {10, 20}
SetPolicyIds == {"a", "b"}
\* the policies handed to add_policy: a Deny of TCP or an Allow of every
\* protocol, under either id, at either priority, enabled or disabled
PolicyCatalogue ==
    {[NewPolicy(id, pa[1], pa[2], priority) EXCEPT !.enabled = e] :
        id \in SetPolicyIds, pa \in {<<"TCP", "Deny">>, <<"All", "Allow">>},
        priority \in Priorities, e \in BOOLEAN}
\* the connections get_matching_policy is asked about
SetConns == {[DefaultConn EXCEPT !.protocol = pr] : pr \in {"TCP", "UDP"}}

\* list l without its element at position k
RemoveAt(l, k) == SubSeq(l, 1, k - 1) \o SubSeq(l, k + 1, Len(l))

\* the positions of sorted that hold a priority above that of x
Above(sorted, x) == {k \in DOMAIN sorted : sorted[k].priority > x.priority}
\* the positions of sorted that hold a priority not below that of x
NotBelow(sorted, x) == {k \in DOMAIN sorted : sorted[k].priority >= x.priority}
\* x put into sorted at the smallest of the positions at, or at the end
InsertAt(sorted, x, at) ==
    IF at = {} THEN Append(sorted, x)
    ELSE LET k == CHOOSE i \in at : \A j \in at : i <= j
         IN  SubSeq(sorted, 1, k - 1) \o <<x>> \o SubSeq(sorted, k, Len(sorted))

RECURSIVE SortByKey_Unstable(_)
\* faulty variant: a sort that puts an element before the equal ones
SortByKey_Unstable(l) ==
    IF l = <<>> THEN <<>>
    ELSE LET sorted == SortByKey_Unstable(SubSeq(l, 1, Len(l) - 1))
         IN  InsertAt(sorted, l[Len(l)], NotBelow(sorted, l[Len(l)]))

RECURSIVE SortByKey(_)
\* Vec::sort_by_key(|p| p.priority): a stable sort
SortByKey(l) ==
    IF l = <<>> THEN <<>>
    ELSE LET sorted == SortByKey(SubSeq(l, 1, Len(l) - 1))
         IN  InsertAt(sorted, l[Len(l)], Above(sorted, l[Len(l)]))

\* Iterator::position: the first position of l whose policy has the id
Position(l, id) ==
    LET at == {k \in DOMAIN l : l[k].id = id}
    IN  IF at = {} THEN None ELSE Some(CHOOSE i \in at : \A j \in at : i <= j)

\* faulty variant: the last policy of the list that matches
FirstMatch_Last(l, c) ==
    LET at == {k \in DOMAIN l : Matches(l[k], c)}
    IN  IF at = {} THEN None ELSE Some(l[CHOOSE i \in at : \A j \in at : i >= j])
\* the loop of get_matching_policy: the first policy of the list that matches
FirstMatch(l, c) ==
    LET at == {k \in DOMAIN l : Matches(l[k], c)}
    IN  IF at = {} THEN None ELSE Some(l[CHOOSE i \in at : \A j \in at : i <= j])

\* the last call on the set, and the ids a remove_policy has returned a policy
\* for with no add_policy of the id since
NoSetCall == [op |-> "new", added |-> None, result |-> None, removed |-> {}]

\* PolicySet::new
PolicySetInit ==
    /\ policies = <<>>
    /\ arrival = <<>>
    /\ setcall = NoSetCall

\* PolicySet::new
PolicySetNew ==
    /\ policies' = <<>>
    /\ arrival' = <<>>
    /\ setcall' = NoSetCall
    /\ UNCHANGED <<portRangeVars, networkPolicyVars>>
    /\ UNCHANGED notModelVars

\* PolicySet::add_policy
AddPolicy(p) ==
    /\ Len(policies) < MaxPolicies
    /\ policies' = SortByKey(Append(policies, p))
    /\ arrival' = Append(arrival, p)
    /\ setcall' = [op |-> "add", added |-> Some(p), result |-> None,
                   removed |-> setcall.removed \ {p.id}]
    /\ UNCHANGED <<portRangeVars, networkPolicyVars>>
    /\ UNCHANGED notModelVars

\* PolicySet::remove_policy
RemovePolicy(id) ==
    /\ LET index == Position(policies, id)
       IN  IF index # None
           THEN LET k == CHOOSE i \in index : TRUE
                    gone == policies[k]
                    first == CHOOSE i \in DOMAIN arrival :
                                 /\ arrival[i] = gone
                                 /\ \A j \in DOMAIN arrival : arrival[j] = gone => i <= j
                IN  /\ policies' = RemoveAt(policies, k)
                    /\ arrival' = RemoveAt(arrival, first)
                    /\ setcall' = [op |-> "remove", added |-> None, result |-> Some(gone),
                                   removed |-> setcall.removed \cup {id}]
           ELSE /\ setcall' = [op |-> "remove", added |-> None, result |-> None,
                               removed |-> setcall.removed]
                /\ UNCHANGED <<policies, arrival>>
    /\ UNCHANGED <<portRangeVars, networkPolicyVars>>
    /\ UNCHANGED notModelVars

\* PolicySet::get_matching_policy
GetMatchingPolicy ==
    /\ setcall' = [op |-> "get_matching", added |-> None,
                   result |-> FirstMatch(policies, conn), removed |-> setcall.removed]
    /\ UNCHANGED <<policies, arrival>>
    /\ UNCHANGED <<portRangeVars, networkPolicyVars>>
    /\ UNCHANGED notModelVars

\* Iterator::find: the first policy of l that has the id
FindPolicy(l, id) ==
    LET at == {k \in DOMAIN l : l[k].id = id}
    IN  IF at = {} THEN None ELSE Some(l[CHOOSE i \in at : \A j \in at : i <= j])

\* PolicySet::get_policy
PolicySetGetPolicy(id) ==
    /\ setcall' = [op |-> "get", added |-> None, result |-> FindPolicy(policies, id),
                   removed |-> setcall.removed]
    /\ UNCHANGED <<policies, arrival>>
    /\ UNCHANGED <<portRangeVars, networkPolicyVars>>
    /\ UNCHANGED notModelVars

PolicySetNext ==
    \/ PolicySetNew
    \/ \E p \in PolicyCatalogue : AddPolicy(p)
    \/ \E id \in SetPolicyIds : RemovePolicy(id)
    \/ \E id \in SetPolicyIds : PolicySetGetPolicy(id)
    \/ GetMatchingPolicy

(***************************************************************************)
(* Claims about PolicySet.                                                 *)
(***************************************************************************)
\* the policies of list l that have priority pr, in the order of l
AtPriority(l, pr) == SelectSeq(l, LAMBDA p : p.priority = pr)

\* C24: after any sequence of add_policy and remove_policy the list of the
\* set is sorted ascending by priority, and policies of equal priority are
\* in the order they were added.
C24_SortedStable ==
    /\ \A i \in DOMAIN policies : \A j \in DOMAIN policies :
           i < j => policies[i].priority <= policies[j].priority
    /\ \A pr \in Priorities : AtPriority(policies, pr) = AtPriority(arrival, pr)

\* the policy added last stands behind a different one of the same priority
C24_Witness ==
    /\ setcall.op = "add"
    /\ \E i \in DOMAIN policies : \E j \in DOMAIN policies :
           /\ i < j
           /\ setcall.added = Some(policies[j])
           /\ policies[i].priority = policies[j].priority
           /\ policies[i] # policies[j]

\* the positions in the order of arrival of the policies that match c
Matching(c) == {k \in DOMAIN arrival : Matches(arrival[k], c)}

\* C25: get_matching_policy returns none exactly when no policy of the set
\* matches; otherwise it returns a matching (hence enabled) policy of the
\* lowest priority value among the matching ones, the earliest added among
\* those of that priority, whatever the order the policies were added in.
C25_FirstMatch ==
    setcall.op = "get_matching" =>
        /\ setcall.result = None <=> Matching(conn) = {}
        /\ Matching(conn) # {} =>
               \E k \in Matching(conn) :
                   /\ setcall.result = Some(arrival[k])
                   /\ arrival[k].enabled
                   /\ \A j \in Matching(conn) :
                          /\ arrival[k].priority <= arrival[j].priority
                          /\ arrival[k].priority = arrival[j].priority => k <= j

\* the set was given the priority-20 Allow of every protocol and then the
\* priority-10 Deny of TCP, and a TCP connection got the priority-10 policy
C25_Witness ==
    /\ setcall.op = "get_matching"
    /\ conn.protocol = "TCP"
    /\ Len(arrival) = 2
    /\ arrival[1].priority = 20 /\ arrival[1].action = "Allow" /\ arrival[1].protocol = "All"
    /\ arrival[2].priority = 10 /\ arrival[2].action = "Deny" /\ arrival[2].protocol = "TCP"
    /\ arrival[1].enabled /\ arrival[2].enabled
    /\ setcall.result = Some(arrival[2])

\* C39: after remove_policy(id) has returned a policy, and until a policy
\* with that id is added again, get_policy(id) returns none and
\* get_matching_policy never returns a policy with that id, after any
\* sequence of add_policy calls, two policies with the same id included.
C39_RemovedIsGone ==
    setcall.op \in {"get", "get_matching"} =>
        \A p \in setcall.result : p.id \notin setcall.removed

(***************************************************************************)
(* ConnectionId and its two constructors (maps.rs).                        *)
(*                                                                         *)
(* An Ipv4Addr is its four octets, an Ipv6Addr its eight 16-bit segments;  *)
(* the address bytes of a ConnectionId are a function on 1..16, byte k of  *)
(* the code at position k + 1.                                             *)
(***************************************************************************)
Ipv4Addrs ==
    {<<10, 0, 0, 1>>, <<10, 0, 0, 2>>, <<1, 0, 0, 10>>, <<0, 0, 0, 0>>,
     <<255, 255, 255, 255>>}
\* 10.0.0.1:443 -> 10.0.0.2:8080, protocol 6
DefaultTuple ==
    [src_ip |-> <<10, 0, 0, 1>>, dst_ip |-> <<10, 0, 0, 2>>, src_port |-> 443,
     dst_port |-> 8080, protocol |-> 6]
\* 5-tuples that differ from the default one in one field, or have the two
\* addresses or the two ports exchanged
V4Tuples ==
    {[DefaultTuple EXCEPT !.src_ip = a] : a \in Ipv4Addrs}
    \cup {[DefaultTuple EXCEPT !.dst_ip = a] : a \in Ipv4Addrs}
    \cup {[DefaultTuple EXCEPT !.src_port = q] : q \in {0, 8080, 65535}}
    \cup {[DefaultTuple EXCEPT !.dst_port = q] : q \in {0, 443, 65535}}
    \cup {[DefaultTuple EXCEPT !.protocol = q] : q \in {0, 17, 255}}
    \cup {[DefaultTuple EXCEPT !.src_ip = <<10, 0, 0, 2>>, !.dst_ip = <<10, 0, 0, 1>>],
          [DefaultTuple EXCEPT !.src_port = 8080, !.dst_port = 443]}

\* Ipv4Addr::to_ipv6_mapped: ::ffff:a.b.c.d
ToIpv6Mapped(a) == <<0, 0, 0, 0, 0, 65535, a[1] * 256 + a[2], a[3] * 256 + a[4]>>
\* ::a.b.c.d, the address without the ffff marker
ToIpv6Compatible(a) == <<0, 0, 0, 0, 0, 0, a[1] * 256 + a[2], a[3] * 256 + a[4]>>
\* the arguments of create_ipv6_connection_id: the mapped forms of the IPv4
\* 5-tuples, and addresses that are not mapped ones (::a.b.c.d, 2001:db8::1)
V6Tuples ==
    {[t EXCEPT !.src_ip = ToIpv6Mapped(@), !.dst_ip = ToIpv6Mapped(@)] : t \in V4Tuples}
    \cup {[DefaultTuple EXCEPT !.src_ip = ToIpv6Compatible(@), !.dst_ip = ToIpv6Mapped(@)],
          [DefaultTuple EXCEPT !.src_ip = ToIpv6Mapped(@), !.dst_ip = ToIpv6Compatible(@)],
          [DefaultTuple EXCEPT !.src_ip = <<8193, 3512, 0, 0, 0, 0, 0, 1>>,
                               !.dst_ip = ToIpv6Mapped(@)]}

\* faulty variant: the octets are copied in reverse
MappedBytes_Reversed(octets) ==
    [k \in 1..16 |-> IF k \in 11..12 THEN 255 ELSE IF k >= 13 THEN octets[17 - k] ELSE 0]
\* create_ipv4_connection_id, lines 115-123: sixteen zero bytes, then 0xFF at
\* bytes 10 and 11 and the octets at bytes 12 to 15
MappedBytes(octets) ==
    [k \in 1..16 |-> IF k \in 11..12 THEN 255 ELSE IF k >= 13 THEN octets[k - 12] ELSE 0]

\* faulty variant: each segment gives its low byte first
Ipv6Octets_LittleEndian(segments) ==
    [k \in 1..16 |-> IF k % 2 = 1 THEN segments[(k + 1) \div 2] % 256
                     ELSE segments[k \div 2] \div 256]
\* Ipv6Addr::octets: each segment gives its high byte, then its low byte
Ipv6Octets(segments) ==
    [k \in 1..16 |-> IF k % 2 = 1 THEN segments[(k + 1) \div 2] \div 256
                     ELSE segments[k \div 2] % 256]

\* struct ConnectionId
ConnectionId(src_ip, dst_ip, src_port, dst_port, protocol) ==
    [src_ip |-> src_ip, dst_ip |-> dst_ip, src_port |-> src_port,
     dst_port |-> dst_port, protocol |-> protocol]

ConnIdInit ==
    /\ v4calls = <<>>
    /\ v6call = None

\* create_ipv4_connection_id
CreateIpv4ConnectionId(src_ip, dst_ip, src_port, dst_port, protocol) ==
    /\ LET call == [args |-> ConnectionId(src_ip, dst_ip, src_port, dst_port, protocol),
                    id |-> ConnectionId(MappedBytes(src_ip), MappedBytes(dst_ip),
                                        src_port, dst_port, protocol)]
       IN  v4calls' = IF v4calls = <<>> THEN <<call>> ELSE <<call, v4calls[1]>>
    /\ UNCHANGED v6call
    /\ UNCHANGED <<generatorVars, spiffeVars>>
    /\ UNCHANGED notValueVars

\* create_ipv6_connection_id
CreateIpv6ConnectionId(src_ip, dst_ip, src_port, dst_port, protocol) ==
    /\ v6call' =
           Some([args |-> ConnectionId(src_ip, dst_ip, src_port, dst_port, protocol),
                 id |-> ConnectionId(Ipv6Octets(src_ip), Ipv6Octets(dst_ip),
                                     src_port, dst_port, protocol)])
    /\ UNCHANGED v4calls
    /\ UNCHANGED <<generatorVars, spiffeVars>>
    /\ UNCHANGED notValueVars

ConnIdNext ==
    \/ \E t \in V4Tuples :
           CreateIpv4ConnectionId(t.src_ip, t.dst_ip, t.src_port, t.dst_port, t.protocol)
    \/ \E t \in V6Tuples :
           CreateIpv6ConnectionId(t.src_ip, t.dst_ip, t.src_port, t.dst_port, t.protocol)

(***************************************************************************)
(* Claims about ConnectionId.                                              *)
(***************************************************************************)
\* address bytes b are the IPv4-mapped form of the four octets
IsMappedForm(b, octets) ==
    /\ \A k \in 0..9 : b[k + 1] = 0
    /\ b[11] = 255 /\ b[12] = 255
    /\ \A k \in 12..15 : b[k + 1] = octets[k - 11]

\* C31: a ConnectionId built from IPv4 addresses has, in both addresses,
\* bytes 0 to 9 equal to 0, bytes 10 and 11 equal to 0xFF and bytes 12 to 15
\* equal to the octets in order, and carries the ports and the protocol
\* unchanged; two IPv4 5-tuples that give equal ConnectionIds are equal.
C31_Ipv4Mapped ==
    /\ \A n \in DOMAIN v4calls :
           /\ IsMappedForm(v4calls[n].id.src_ip, v4calls[n].args.src_ip)
           /\ IsMappedForm(v4calls[n].id.dst_ip, v4calls[n].args.dst_ip)
           /\ v4calls[n].id.src_port = v4calls[n].args.src_port
           /\ v4calls[n].id.dst_port = v4calls[n].args.dst_port
           /\ v4calls[n].id.protocol = v4calls[n].args.protocol
    /\ Len(v4calls) = 2 =>
           (v4calls[1].id = v4calls[2].id => v4calls[1].args = v4calls[2].args)

\* the 5-tuple 10.0.0.1:443 -> 10.0.0.2:8080, protocol 6 was built after the
\* 5-tuple with the same octets in another order
C31_Witness ==
    /\ Len(v4calls) = 2
    /\ v4calls[1].args = DefaultTuple
    /\ v4calls[2].args = [DefaultTuple EXCEPT !.src_ip = <<1, 0, 0, 10>>]
    /\ v4calls[1].id # v4calls[2].id

\* the call of create_ipv6_connection_id had the ::ffff:a.b.c.d forms of the
\* addresses of IPv4 call f, and its ports and protocol
SameTuple(f) ==
    /\ v6call # None
    /\ \A g \in v6call :
           g.args = [f.args EXCEPT !.src_ip = ToIpv6Mapped(@), !.dst_ip = ToIpv6Mapped(@)]

\* C40: for every IPv4 5-tuple, create_ipv4_connection_id gives the same
\* ConnectionId as create_ipv6_connection_id called with the ::ffff:a.b.c.d
\* forms of the addresses and the same ports and protocol.
C40_ConstructorsAgree ==
    \A n \in DOMAIN v4calls :
        SameTuple(v4calls[n]) => \A g \in v6call : g.id = v4calls[n].id

\* both constructors were called on the same 5-tuple, whose addresses differ
C40_Witness ==
    /\ v4calls # <<>>
    /\ SameTuple(v4calls[1])
    /\ v4calls[1].args.src_ip # v4calls[1].args.dst_ip
    /\ \A g \in v6call : g.id = v4calls[1].id

(***************************************************************************)
(* PolicyGenerator (policy_generator.rs).                                  *)
(*                                                                         *)
(* aegisnet_common::policy::compile_policy_to_wasm is called but is not    *)
(* part of the sources: it is modelled as the specification describes it,  *)
(* a function of the policy definition alone.  The module bytes are a      *)
(* sequence of symbols.                                                    *)
(***************************************************************************)
Versions == {"1.0", "2.0"}
Services == {"frontend", "backend"}
CrdActions == {"PolicyAction::Allow", "PolicyAction::Deny", "PolicyAction::RequireAuth"}
\* the rules a ZeroTrustPolicy is made of
CrdRules ==
    {[name |-> "get", condition |-> "method == 'GET'", action |-> "PolicyAction::Allow"],
     [name |-> "post", condition |-> "method == 'POST'", action |-> "PolicyAction::Deny"]}
RECURSIVE RuleLists(_)
\* the lists of at most n rules
RuleLists(n) ==
    IF n = 0 THEN {<<>>}
    ELSE RuleLists(n - 1)
         \cup {Append(l, r) : l \in {x \in RuleLists(n - 1) : Len(x) = n - 1}, r \in CrdRules}
\* ZeroTrustPolicy, with the name name_any() returns
ZeroTrustPolicy(src, dst, a, rules) ==
    [name |-> "web",
     spec |-> [source |-> [namespace |-> "default", service |-> src, port |-> Some(8080)],
               destination |-> [namespace |-> "default", service |-> dst, port |-> Some(9000)],
               action |-> a, rules |-> rules]]
\* policies of every list of rules, of every action, and of either direction
ZeroTrustPolicies ==
    {ZeroTrustPolicy("frontend", "backend", "PolicyAction::Allow", rules) :
        rules \in RuleLists(MaxRules)}
    \cup {ZeroTrustPolicy("frontend", "backend", a, <<>>) : a \in CrdActions}
    \cup {ZeroTrustPolicy(src, dst, "PolicyAction::Deny", <<>>) :
              src \in Services, dst \in Services}

\* the match on PolicyAction, lines 37-41 and 47-51
ConvertAction(a) ==
    CASE a = "PolicyAction::Allow" -> "Action::Allow"
      [] a = "PolicyAction::Deny" -> "Action::Deny"
      [] a = "PolicyAction::RequireAuth" -> "Action::RequireAuth"

\* faulty variant: the rules come out in reverse
ConvertRules_Reversed(rules) ==
    [k \in DOMAIN rules |->
        [name |-> rules[Len(rules) + 1 - k].name,
         condition |-> rules[Len(rules) + 1 - k].condition,
         action |-> ConvertAction(rules[Len(rules) + 1 - k].action)]]
\* the loop over policy.spec.rules, lines 46-58
ConvertRules(rules) ==
    [k \in DOMAIN rules |->
        [name |-> rules[k].name, condition |-> rules[k].condition,
         action |-> ConvertAction(rules[k].action)]]

\* PolicyGenerator::generate_policy_definition
PolicyDefinitionOf(version, p) ==
    [name |-> p.name,
     version |-> version,
     source |-> p.spec.source.service,
     source_namespace |-> p.spec.source.namespace,
     destination |-> p.spec.destination.service,
     destination_namespace |-> p.spec.destination.namespace,
     default_action |-> ConvertAction(p.spec.action),
     rules |-> ConvertRules(p.spec.rules)]

RECURSIVE EncodeRules(_)
\* the symbols of a list of rules
EncodeRules(rules) ==
    IF rules = <<>> THEN <<>>
    ELSE <<rules[1].name, rules[1].condition, rules[1].action>> \o EncodeRules(Tail(rules))

\* faulty variant: the bytes carry the number of modules compiled before
CompilePolicyToWasm_Numbered(definition) ==
    <<"\\0asm", definition.name, definition.version, definition.source,
      definition.source_namespace, definition.destination,
      definition.destination_namespace, definition.default_action>>
    \o EncodeRules(definition.rules)
    \o (IF Len(gcalls) = 0 THEN <<>> ELSE <<"1">>)
\* compile_policy_to_wasm: the module bytes of a policy definition
CompilePolicyToWasm(definition) ==
    <<"\\0asm", definition.name, definition.version, definition.source,
      definition.source_namespace, definition.destination,
      definition.destination_namespace, definition.default_action>>
    \o EncodeRules(definition.rules)

\* PolicyGenerator::new
GeneratorInit ==
    /\ generator \in Versions
    /\ gcalls = <<>>

\* call is the newest of the last two calls
Called2(call) ==
    /\ gcalls' = IF gcalls = <<>> THEN <<call>> ELSE <<call, gcalls[1]>>
    /\ UNCHANGED generator
    /\ UNCHANGED <<connIdVars, spiffeVars>>
    /\ UNCHANGED notValueVars

\* PolicyGenerator::generate_policy_definition
GeneratePolicyDefinition(p) ==
    Called2([op |-> "generate_policy_definition", policy |-> p,
             definition |-> PolicyDefinitionOf(generator, p), bytes |-> <<>>])

\* PolicyGenerator::generate_wasm_module
GenerateWasmModule(p) ==
    LET definition == PolicyDefinitionOf(generator, p)
    IN  Called2([op |-> "generate_wasm_module", policy |-> p, definition |-> definition,
                 bytes |-> CompilePolicyToWasm(definition)])

GeneratorNext ==
    \/ \E p \in ZeroTrustPolicies : GeneratePolicyDefinition(p)
    \/ \E p \in ZeroTrustPolicies : GenerateWasmModule(p)

(***************************************************************************)
(* Claims about the PolicyGenerator.                                       *)
(***************************************************************************)
\* definition d keeps the source, the destination and the rules of policy p
KeepsOrder(d, p) ==
    /\ d.source = p.spec.source.service
    /\ d.destination = p.spec.destination.service
    /\ Len(d.rules) = Len(p.spec.rules)
    /\ \A k \in DOMAIN d.rules :
           /\ d.rules[k].name = p.spec.rules[k].name
           /\ d.rules[k].condition = p.spec.rules[k].condition

SpiffeScheme == <<"s", "p", "i", "f", "f", "e">>
TrustDomains == {<<>>, <<"a">>, <<"a", "/", "b">>, <<"a", "b">>}
IdPaths == {<<>>, <<"x">>, <<"/">>, <<"/", "x">>, <<"/", "b", "/", "x">>}
\* https://a/x, spiffe:///x, spiffe:/x, a/x, spiffe://a
OtherUris ==
    {<<"h", "t", "t", "p", "s", ":", "/", "/", "a", "/", "x">>,
     SpiffeScheme \o <<":", "/", "/", "/", "x">>,
     SpiffeScheme \o <<":", "/", "x">>,
     <<"a", "/", "x">>,
     SpiffeScheme \o <<":", "/", "/", "a">>}

\* the first position of character c in string str, 0 if there is none
Find(str, c) ==
    IF \E k \in DOMAIN str : str[k] = c
    THEN CHOOSE k \in DOMAIN str : str[k] = c /\ \A j \in 1..(k - 1) : str[j] # c
    ELSE 0
\* str from position k on
From(str, k) == SubSeq(str, k, Len(str))
StartsWith(str, prefix) ==
    Len(str) >= Len(prefix) /\ SubSeq(str, 1, Len(prefix)) = prefix

\* Url::parse: scheme, host_str() and path() of the URL, or none on an error
ParseUrl(uri) ==
    LET colon == Find(uri, ":")
        slash == Find(uri, "/")
    IN  IF colon <= 1 \/ (slash # 0 /\ slash < colon) THEN None
        ELSE LET rest == From(uri, colon + 1)
             IN  IF StartsWith(rest, <<"/", "/">>)
                 THEN LET after == From(rest, 3)
                          stop == Find(after, "/")
                          authority == IF stop = 0 THEN after ELSE SubSeq(after, 1, stop - 1)
                      IN  Some([scheme |-> SubSeq(uri, 1, colon - 1),
                                host |-> IF authority = <<>> THEN None ELSE Some(authority),
                                path |-> IF stop = 0 THEN <<>> ELSE From(after, stop)])
                 ELSE Some([scheme |-> SubSeq(uri, 1, colon - 1), host |-> None,
                            path |-> rest])

\* SpiffeId::new: the id, or none on an error
SpiffeIdNew(trust_domain, path) ==
    IF trust_domain = <<>> THEN None
    ELSE IF ~StartsWith(path, <<"/">>) THEN None
    ELSE Some([trust_domain |-> trust_domain, path |-> path])

\* SpiffeId::from_uri: the id, or none on an error
SpiffeIdFromUri(uri) ==
    LET parsed == ParseUrl(uri)
    IN  IF parsed = None THEN None
        ELSE LET url == CHOOSE u \in parsed : TRUE
             IN  IF url.scheme # SpiffeScheme THEN None
                 ELSE IF url.host = None THEN None
                 ELSE SpiffeIdNew(CHOOSE h \in url.host : TRUE, url.path)

\* SpiffeId::uri
SpiffeIdUri(id) == SpiffeScheme \o <<":", "/", "/">> \o id.trust_domain \o id.path

SpiffeInit ==
    /\ snew = None
    /\ suri = None
    /\ sparse = None

\* a call of SpiffeId::new
SpiffeNew(trust_domain, path) ==
    /\ snew' = Some([trust_domain |-> trust_domain, path |-> path,
                     result |-> SpiffeIdNew(trust_domain, path)])
    /\ suri' = None
    /\ sparse' = None
    /\ UNCHANGED <<connIdVars, generatorVars>>
    /\ UNCHANGED notValueVars

\* a call of uri() on the id the last call of new returned
SpiffeUri ==
    /\ \E call \in snew : \E id \in call.result : suri' = Some(SpiffeIdUri(id))
    /\ UNCHANGED <<snew, sparse>>
    /\ UNCHANGED <<connIdVars, generatorVars>>
    /\ UNCHANGED notValueVars

\* a call of SpiffeId::from_uri
SpiffeFromUri(uri) ==
    /\ sparse' = Some([uri |-> uri, result |-> SpiffeIdFromUri(uri)])
    /\ UNCHANGED <<snew, suri>>
    /\ UNCHANGED <<connIdVars, generatorVars>>
    /\ UNCHANGED notValueVars

SpiffeNext ==
    \/ \E trust_domain \in TrustDomains, path \in IdPaths : SpiffeNew(trust_domain, path)
    \/ SpiffeUri
    \/ \E uri \in OtherUris \cup suri : SpiffeFromUri(uri)

(***************************************************************************)
(* Claims about SpiffeId.                                                  *)
(***************************************************************************)
\* the URI has the scheme spiffe and a trust domain after "//"
HasSchemeAndTrustDomain(uri) ==
    /\ StartsWith(uri, SpiffeScheme \o <<":", "/", "/">>)
    /\ Len(uri) > Len(SpiffeScheme) + 3
    /\ uri[Len(SpiffeScheme) + 4] # "/"

\* new errs exactly on an empty trust domain or a path without a leading
\* '/', and uri() is "spiffe://", the trust domain and the path
NewAndUriAsClaimed ==
    \A call \in snew :
        /\ call.result = None <=>
               (call.trust_domain = <<>> \/ ~StartsWith(call.path, <<"/">>))
        /\ \A id \in call.result :
               /\ id.trust_domain = call.trust_domain /\ id.path = call.path
               /\ \A uri \in suri :
                      uri = SpiffeScheme \o <<":", "/", "/">> \o call.trust_domain \o call.path
\* from_uri rejects a URI of another scheme or without a trust domain
FromUriRejects ==
    \A call \in sparse : ~HasSchemeAndTrustDomain(call.uri) => call.result = None

\* C33: SpiffeId::new returns an error exactly when the trust domain
\* is empty or the path does not start with '/', and otherwise an id whose
\* uri() is "spiffe://" followed by the trust domain and the path; from_uri
\* rejects every URI whose scheme is not spiffe or whose trust domain is
\* missing, and from_uri(id.uri()) gives back id.
C33_SpiffeId ==
    /\ NewAndUriAsClaimed
    /\ FromUriRejects
    /\ \A call \in snew : \A id \in call.result : \A parsed \in sparse :
           parsed.uri \in suri => parsed.result = Some(id)

\* what does hold of the round trip: from_uri(id.uri()) gives back id for
\* the ids whose trust domain contains no '/'
RoundTripWithoutSlash ==
    \A call \in snew : \A id \in call.result : \A parsed \in sparse :
        (parsed.uri \in suri /\ Find(id.trust_domain, "/") = 0) =>
            parsed.result = Some(id)

(***************************************************************************)
(* The configuration watcher and the reloads it spawns.                    *)
(***************************************************************************)
\* what a configuration file can hold: nothing that parses, or a configuration
\* (here: one of those with one interface)
FileContents ==
    {None} \cup {Some([bpf_path |-> p, interfaces |-> <<i>>]) : p \in Paths, i \in Interfaces}

\* ConfigManager::new has read the file into config; no reload is spawned yet
WatcherInit ==
    /\ config_file = Some(config)
    /\ trigger = [t \in Tasks |-> None]

\* start_config_watcher, lines 108-133: the file is modified and the callback
\* parses it. When it parses, a task is spawned that takes the loader's write
\* lock and calls reload_programs; the parsed configuration goes nowhere else
ConfigFileModified(t, contents) ==
    /\ lpc[t] = "idle"
    /\ config_file' = contents
    /\ IF contents # None
       THEN /\ lpc' = [lpc EXCEPT ![t] = "acquire"]
            /\ trigger' = [trigger EXCEPT ![t] = contents]
       ELSE UNCHANGED <<lpc, trigger>>
    /\ UNCHANGED <<config, hook_manager, map_manager, loaded_programs, bpf_path,
                   loader_lock, config_lock, lcall>>
    /\ UNCHANGED notWatcherLoaderVars

\* MapManager::update_policy, maps.rs:97-99: the insert into the policy table
\* may fail
MapUpdateResults == {"Ok", "Err"}

\* EbpfLoader::update_policy, lines 194-203, under a guard of the loader lock:
\* with a map manager the value is written and the result of the write is
\* returned; without one a warning is logged and Ok(()) is returned
LoaderUpdatePolicy(t) ==
    /\ lpc[t] = "idle"
    /\ WriteLockFree
    /\ loader_lock' = t
    /\ lpc' = [lpc EXCEPT ![t] = "ret"]
    /\ \E map_result \in MapUpdateResults :
         lcall' = [lcall EXCEPT ![t] =
             [IdleCall EXCEPT !.op = "update_policy",
                              !.pre = Some(LoaderState),
                              !.result = IF map_manager # None THEN map_result ELSE "Ok",
                              !.steps = IF map_manager # None /\ map_result = "Ok"
                                        THEN <<"policy_map.insert">> ELSE <<>>]]
    /\ UNCHANGED <<config, hook_manager, map_manager, loaded_programs, bpf_path,
                   config_lock>>
    /\ UNCHANGED notLoaderVars

\* the watcher's reloads, and the policy updates between them
ReloadNext ==
    \E t \in Tasks :
        \/ \E contents \in FileContents : ConfigFileModified(t, contents)
        \/ Acquire(t, "reload")
        \/ UnloadPrograms(t)
        \/ LoadConfigRead(t)
        \/ LoadPath(t)
        \/ LoadArtifact(t)
        \/ AttachInterface(t)
        \/ AttachTracePoint(t)
        \/ LoadSave(t)
        \/ LoaderUpdatePolicy(t)
        \/ Release(t)

(***************************************************************************)
(* Claims about the watcher's reloads.                                     *)
(***************************************************************************)
Triggered(t) == CHOOSE c \in trigger[t] : TRUE
ReloadSucceeded(t) ==
    AtRet(t) /\ lcall[t].op = "reload" /\ lcall[t].result = "Ok" /\ trigger[t] # None

\* C36: after a change of the configuration file has triggered a reload that
\* succeeds, the artifact was loaded from the path of the new file contents
\* and the hooks are attached to the interfaces of the new file contents, not
\* to those of the configuration read at start-up.
C36_ReloadUsesNewConfig ==
    \A t \in Tasks :
        ReloadSucceeded(t) =>
            /\ bpf_path = Triggered(t).bpf_path
            /\ \A k \in DOMAIN loaded_programs :
                   k[1] \in {"xdp", "tc"} => k[2] \in Range(Triggered(t).interfaces)
            /\ \A interface \in Range(Triggered(t).interfaces) :
                   "xdp_firewall" \in lcall[t].progs =>
                       XdpKey(interface) \in DOMAIN loaded_programs

\* what the code does instead: a reload loads from the path and attaches to the
\* interfaces of the configuration read at start-up
ReloadUsesStartupConfig ==
    \A t \in Tasks :
        ReloadSucceeded(t) =>
            /\ bpf_path = config.bpf_path
            /\ \A k \in DOMAIN loaded_programs :
                   k[1] \in {"xdp", "tc"} => k[2] \in Range(config.interfaces)

\* C37: update_policy on the loader returns success only if the value was
\* written to the policy table; with no artifact loaded it does not report
\* success while writing nothing.
C37_UpdatePolicyWritten ==
    \A t \in Tasks :
        (AtRet(t) /\ lcall[t].op = "update_policy" /\ lcall[t].result = "Ok") =>
            lcall[t].steps = <<"policy_map.insert">>

(***************************************************************************)
(* The tasks of the agent on the loader lock and the config lock.          *)
(*                                                                         *)
(* Both are tokio RwLocks: waiters are served in the order they asked, a   *)
(* reader that asks after a waiting writer waits behind it.  A task is a   *)
(* pair of its kind and a number; a program is the list of the lock        *)
(* operations of the task's code, in order.                                *)
(***************************************************************************)
AgentTasks ==
    {<<"watcher", 0>>, <<"health", 0>>, <<"metrics", 0>>}
    \cup {<<"reload", n>> : n \in 1..NumReloads}
Locks == {"loader", "config"}

Acq(lock, mode) == [op |-> "acquire", lock |-> lock, mode |-> mode]
Rel(lock) == [op |-> "release", lock |-> lock, mode |-> "none"]

\* faulty variant: the health task keeps its config read guard while it
\* reads the loader
Program_HealthKeepsGuard(kind) ==
    CASE kind = "reload" ->
             <<Acq("loader", "write"), Acq("config", "read"), Rel("config"), Rel("loader")>>
      [] kind = "watcher" -> <<Acq("config", "write"), Rel("config")>>
      [] kind = "health" ->
             <<Acq("config", "read"), Acq("loader", "read"), Rel("loader"), Rel("config")>>
      [] kind = "metrics" -> <<Acq("loader", "read"), Rel("loader")>>

\* the lock operations of a task:
\*   reload (config.rs:118-125): ebpf_loader.write(), in load_programs
\*     config.read() (ebpf_loader.rs:68), both guards dropped on return;
\*   watcher (lib.rs:65-68): config.write() around start_config_watcher;
\*   health (health_check.rs:86-106): config.read() for the interval, dropped
\*     at the end of the statement, then ebpf_loader.read() in each check;
\*   metrics (metrics.rs:99-106): ebpf_loader.read() in each collection
Program(kind) ==
    CASE kind = "reload" ->
             <<Acq("loader", "write"), Acq("config", "read"), Rel("config"), Rel("loader")>>
      [] kind = "watcher" -> <<Acq("config", "write"), Rel("config")>>
      [] kind = "health" ->
             <<Acq("config", "read"), Rel("config"), Acq("loader", "read"), Rel("loader")>>
      [] kind = "metrics" -> <<Acq("loader", "read"), Rel("loader")>>

\* where a task goes on after the last operation of its program: the loops of
\* the health and the metrics task, the next file event; the watcher is done
LoopTo(kind) ==
    CASE kind = "reload" -> 1
      [] kind = "watcher" -> 3
      [] kind = "health" -> 3
      [] kind = "metrics" -> 1

\* the operation task t is at, if any
AtEnd(t) == apc[t].at > Len(Program(t[1]))
Current(t) == Program(t[1])[apc[t].at]
Advance(t) ==
    [apc EXCEPT ![t] = [at |-> IF apc[t].at = Len(Program(t[1])) THEN LoopTo(t[1])
                                ELSE apc[t].at + 1,
                        waiting |-> FALSE]]

FreeLock == [writer |-> None, readers |-> {}, queue |-> <<>>]

\* Agent::new, after Agent::start has loaded the programs
AgentInit ==
    /\ rwlock = [l \in Locks |-> FreeLock]
    /\ apc = [t \in AgentTasks |-> [at |-> 1, waiting |-> FALSE]]

\* RwLock::read / RwLock::write is called: the task joins the queue
LockRequest(t) ==
    /\ ~AtEnd(t)
    /\ Current(t).op = "acquire"
    /\ ~apc[t].waiting
    /\ rwlock' = [rwlock EXCEPT ![Current(t).lock].queue =
                      Append(@, [task |-> t, mode |-> Current(t).mode])]
    /\ apc' = [apc EXCEPT ![t].waiting = TRUE]
    /\ UNCHANGED notAgentVars

\* the lock can be given in the mode asked for
Grantable(l, mode) ==
    IF mode = "write" THEN l.writer = None /\ l.readers = {}
    ELSE l.writer = None

\* the first waiter of the queue gets its guard
LockGrant(t) ==
    /\ ~AtEnd(t)
    /\ apc[t].waiting
    /\ LET name == Current(t).lock
           l == rwlock[name]
       IN  /\ l.queue # <<>>
           /\ l.queue[1].task = t
           /\ Grantable(l, l.queue[1].mode)
           /\ rwlock' = [rwlock EXCEPT ![name] =
                  [writer |-> IF l.queue[1].mode = "write" THEN Some(t) ELSE l.writer,
                   readers |-> IF l.queue[1].mode = "read" THEN l.readers \cup {t}
                               ELSE l.readers,
                   queue |-> Tail(l.queue)]]
    /\ apc' = Advance(t)
    /\ UNCHANGED notAgentVars

\* a guard is dropped
LockRelease(t) ==
    /\ ~AtEnd(t)
    /\ Current(t).op = "release"
    /\ rwlock' = [rwlock EXCEPT ![Current(t).lock].writer = @ \ {t},
                                ![Current(t).lock].readers = @ \ {t}]
    /\ apc' = Advance(t)
    /\ UNCHANGED notAgentVars

AgentNext ==
    \E t \in AgentTasks :
        \/ LockRequest(t)
        \/ LockGrant(t)
        \/ LockRelease(t)

Holds(t, lock) == t \in rwlock[lock].writer \cup rwlock[lock].readers

\* a lock that can be given to its first waiter is given, and a task that
\* holds a guard goes on: to the next lock it asks for, or to the drop of the
\* guard.  Nothing makes a task without a guard ask for a lock.
AgentFairness ==
    \A t \in AgentTasks :
        /\ WF_vars(LockGrant(t))
        /\ WF_vars(LockRelease(t))
        /\ WF_vars((\E l \in Locks : Holds(t, l)) /\ LockRequest(t))

(***************************************************************************)
(* Claims about the tasks of the agent.                                    *)
(***************************************************************************)
\* C35: the tasks of the agent never deadlock on the loader lock and the
\* config lock: in any interleaving of the reloads, the start of the config
\* watcher, the health task and the metrics task, every task that waits for
\* a lock gets it.
C35_NoLockDeadlock ==
    \A t \in AgentTasks : apc[t].waiting ~> ~apc[t].waiting

\* a reload holds the loader lock and waits for the config lock behind the
\* watcher, while the health and the metrics task wait for the loader lock
C35_Witness ==
    /\ Holds(<<"reload", 1>>, "loader")
    /\ apc[<<"reload", 1>>].waiting
    /\ apc[<<"watcher", 0>>].waiting
    /\ Len(rwlock["config"].queue) = 2
    /\ rwlock["config"].queue[1].task = <<"watcher", 0>>
    /\ apc[<<"health", 0>>].waiting
    /\ apc[<<"metrics", 0>>].waiting

(***************************************************************************)
(* Specifications.                                                         *)
(***************************************************************************)
\* the agent's loader under every configuration, the engine left as created
\* the policy model as created
ModelInit == PortRangeInit /\ NetworkPolicyInit /\ PolicySetInit
\* the value types: nothing built yet
ValueInit == ConnIdInit /\ GeneratorInit /\ generator = "1.0" /\ SpiffeInit

Init ==
    /\ LoaderInit /\ PolicyInit /\ DefaultSessions /\ StoreInit /\ ModelInit /\ ValueInit
    /\ AgentInit
    /\ WatcherInit

SpecLoader == Init /\ [][LoaderNext]_vars

\* the engine alone, the loader left as created under create_default_config
InitPolicy ==
    /\ LoaderInit
    /\ config = [bpf_path |-> DefaultBpfPath, interfaces |-> <<"eth0">>]
    /\ PolicyInit
    /\ DefaultSessions
    /\ StoreInit
    /\ ModelInit
    /\ ValueInit
    /\ AgentInit
    /\ WatcherInit

SpecPolicy == InitPolicy /\ [][PolicyNext]_vars

\* two peer sessions of any pattern, the loader and the engine left as created
InitSession ==
    /\ LoaderInit
    /\ config = [bpf_path |-> DefaultBpfPath, interfaces |-> <<"eth0">>]
    /\ PolicyInit
    /\ SessionInit
    /\ StoreInit
    /\ ModelInit
    /\ ValueInit
    /\ AgentInit
    /\ WatcherInit

SpecSession == InitSession /\ [][SessionNext]_vars

\* the connection table alone, the other components left as created
SpecStore == InitPolicy /\ [][StoreNext]_vars

\* one caller on the connection table and the policy table
SpecTables == InitPolicy /\ [][TablesNext]_vars

\* PortRange alone
SpecPortRange == InitPolicy /\ [][PortRangeNext]_vars

\* one NetworkPolicy and any connection
InitNetworkPolicy ==
    /\ LoaderInit
    /\ config = [bpf_path |-> DefaultBpfPath, interfaces |-> <<"eth0">>]
    /\ PolicyInit
    /\ DefaultSessions
    /\ StoreInit
    /\ PortRangeInit
    /\ \E c \in Conns : NetworkPolicyInitWith(c)
    /\ PolicySetInit
    /\ ValueInit
    /\ AgentInit
    /\ WatcherInit

SpecNetworkPolicy == InitNetworkPolicy /\ [][NetworkPolicyNext]_vars

\* one PolicySet and a TCP or UDP connection
InitPolicySet ==
    /\ LoaderInit
    /\ config = [bpf_path |-> DefaultBpfPath, interfaces |-> <<"eth0">>]
    /\ PolicyInit
    /\ DefaultSessions
    /\ StoreInit
    /\ PortRangeInit
    /\ \E c \in SetConns : NetworkPolicyInitWith(c)
    /\ PolicySetInit
    /\ ValueInit
    /\ AgentInit
    /\ WatcherInit

SpecPolicySet == InitPolicySet /\ [][PolicySetNext]_vars

\* the two constructors of ConnectionId
SpecConnId == InitPolicy /\ [][ConnIdNext]_vars

\* a PolicyGenerator of any version
InitGenerator ==
    /\ LoaderInit
    /\ config = [bpf_path |-> DefaultBpfPath, interfaces |-> <<"eth0">>]
    /\ PolicyInit
    /\ DefaultSessions
    /\ StoreInit
    /\ ModelInit
    /\ ConnIdInit
    /\ GeneratorInit
    /\ SpiffeInit
    /\ AgentInit
    /\ WatcherInit

SpecGenerator == InitGenerator /\ [][GeneratorNext]_vars

\* SpiffeId::new, uri and from_uri
SpecSpiffe == InitPolicy /\ [][SpiffeNext]_vars

\* the reloads the configuration watcher spawns
InitReload == Init /\ config_file \in FileContents
SpecReload == InitReload /\ [][ReloadNext]_vars

\* the tasks of the agent on the two locks, each going on when it can
SpecAgent == InitPolicy /\ [][AgentNext]_vars /\ AgentFairness

====
